---- MODULE Spec2Model ----
(***************************************************************************)
(* A model of stdem (src/src/stdem.c): an integer-keyed hash table with    *)
(* separate chaining, load-factor driven growth, copy, merge, clear and a  *)
(* binary serialization codec.                                             *)
(*                                                                         *)
(* Conventions                                                             *)
(*   - a C pointer that may be NULL is a sequence of length <= 1:          *)
(*     <<>> is NULL, <<x>> points at x (names, map handles);              *)
(*   - a C string is a sequence of character codes;                        *)
(*   - a void pointer is a record [kind, addr, bytes]: the null pointer, a  *)
(*     caller address, or a heap buffer owned by an entry;                 *)
(*   - bucket i of the C array is buckets[i + 1], a chain is the sequence  *)
(*     of its entries from the head;                                       *)
(*   - a uint32_t is a pair <<hi, lo>> of 16-bit halves, so that the       *)
(*     arithmetic modulo 2^32 of the hash never leaves the integers the    *)
(*     model checker can represent.                                        *)
(***************************************************************************)
EXTENDS Integers, Sequences, FiniteSets, TLC

VARIABLES maps, stream, last, heap, caller, threads

vars == <<maps, stream, last, heap, caller, threads>>

---------------------------------------------------------------------------
(* Program constants *)

STEM_SUCCESS == 0
STEM_ERROR_INVALID_ARG == 1
STEM_ERROR_OUT_OF_MEMORY == 2
STEM_ERROR_INDEX_OUT_OF_BOUNDS == 3
STEM_ERROR_NOT_FOUND == 4
STEM_ERROR_ALREADY_EXISTS == 5
STEM_ERROR_UNINITIALIZED == 6

STEM_FLAGS_NONE == 0
STEM_FLAGS_NO_NAMES == 1
STEM_FLAGS_READONLY == 2
STEM_FLAGS_COPY_VALUES == 4

STEM_DEFAULT_BUCKETS == 16
\* STEM_LOAD_FACTOR 0.75 as the fraction LoadNum / LoadDen
LoadNum == 3
LoadDen == 4

\* 2654435761U = 0x9E3779B1 as 16-bit halves
HashMulHi == 40503
HashMulLo == 31153

\* the stream's magic 0x454E554D as 16-bit halves, and its version
MagicHi == 17742
MagicLo == 21837
FormatVersion == 1

\* widths in bytes of the fields of the stream (LP64)
SizeofSizeT == 8
SizeofPtr == 8
SizeofInt == 4
SizeofU16 == 2

---------------------------------------------------------------------------
(* Bounds of the exploration *)

\* caller buffers 1..NumPtrs (address 0 is NULL)
NumPtrs == 2
\* non-empty caller names: the one-character strings 1..NumNames
NumNames == 1
\* entries a grown map holds when the exploration starts
PreFill == 12
\* entries two maps to be merged hold together
MaxLive == 3

---------------------------------------------------------------------------
(* Values of the C types *)

Half == 2^16
Byte == 2^8

NULL == <<>>
Ref(x) == <<x>>
Deref(p) == p[1]

NullPtr == [kind |-> "null", addr |-> 0, bytes |-> <<>>]
CallerPtr(a) == IF a = 0 THEN NullPtr ELSE [kind |-> "caller", addr |-> a, bytes |-> <<>>]
HeapBuf(b) == [kind |-> "heap", addr |-> 0, bytes |-> b]

\* the bytes the caller's buffer at address a holds
CallerBytes(a, n) == [i \in 1..n |-> (37 * a + i) % Byte]

\* the n bytes a void pointer points at (address 0 read as any other)
BytesAt(p, n) ==
    IF p.kind = "heap" \/ p.bytes # <<>>
    THEN SubSeq(p.bytes, 1, n) ELSE CallerBytes(p.addr, n)

HasFlag(flags, bit) == (flags \div bit) % 2 = 1

\* flags1 | flags2 on the three flag bits
FlagsOr(f1, f2) ==
      (IF HasFlag(f1, 1) \/ HasFlag(f2, 1) THEN 1 ELSE 0)
    + (IF HasFlag(f1, 2) \/ HasFlag(f2, 2) THEN 2 ELSE 0)
    + (IF HasFlag(f1, 4) \/ HasFlag(f2, 4) THEN 4 ELSE 0)

\* (uint32_t)value for an int value
ToU32(v) == <<(v \div Half) % Half, v % Half>>

\* (int)u for a uint32_t u
ToInt(u) == IF u[1] >= Half \div 2 THEN (u[1] - Half) * Half + u[2]
            ELSE u[1] * Half + u[2]

\* a * b mod 2^16 for 16-bit a, b
MulLo16(a, b) == (a * (b % Byte) + ((a * (b \div Byte)) % Byte) * Byte) % Half

\* floor(a * b / 2^16) for 16-bit a, b
MulHi16(a, b) ==
    LET x == a * (b % Byte)
        y == a * (b \div Byte)
    IN  (x + (y % Byte) * Byte) \div Half + y \div Byte

\* a * b mod 2^32 for uint32_t a, b
MulU32(a, b) ==
    << (MulHi16(a[2], b[2]) + MulLo16(a[1], b[2]) + MulLo16(a[2], b[1])) % Half,
       MulLo16(a[2], b[2]) >>

\* u % n for a uint32_t u and a small n
ModU32(u, n) == ((u[1] % n) * (Half % n) + u[2]) % n

---------------------------------------------------------------------------
(* Hashing and the internal map operations *)

\* a hash of the magnitude of the key
stem_hash_int_Magnitude(value) ==
    MulU32(ToU32(IF value < 0 THEN 0 - value ELSE value),
           <<HashMulHi, HashMulLo>>)

stem_hash_int(value) == MulU32(ToU32(value), <<HashMulHi, HashMulLo>>)

\* hash % num_buckets, as an index into the model's 1-based bucket sequence
BucketIdx(enum_value, num_buckets) ==
    ModU32(stem_hash_int(enum_value), num_buckets) + 1

\* the position in chain of the first entry with this key, 0 if none
RECURSIVE ChainFind(_, _, _)
ChainFind(chain, enum_value, i) ==
    IF i > Len(chain) THEN 0
    ELSE IF chain[i].enum_value = enum_value THEN i
    ELSE ChainFind(chain, enum_value, i + 1)

\* a lookup that compares the head of the chain only
stem_find_entry_HeadOnly(map, enum_value) ==
    LET chain == map.buckets[BucketIdx(enum_value, map.num_buckets)]
    IN  IF chain # <<>> /\ chain[1].enum_value = enum_value
        THEN Ref(chain[1]) ELSE NULL

\* the entry found (a pointer: NULL if none)
stem_find_entry(map, enum_value) ==
    LET chain == map.buckets[BucketIdx(enum_value, map.num_buckets)]
        i == ChainFind(chain, enum_value, 1)
    IN  IF i = 0 THEN NULL ELSE Ref(chain[i])

\* the entries in the order every loop over the table visits them:
\* buckets ascending, each chain from its head
RECURSIVE Walk(_, _)
Walk(buckets, i) ==
    IF i > Len(buckets) THEN <<>> ELSE buckets[i] \o Walk(buckets, i + 1)

EmptyBuckets(n) == [i \in 1..n |-> <<>>]

\* the rehash loop: each entry visited is made the head of its new chain
RECURSIVE Rehash(_, _, _, _)
Rehash(entries, i, new_buckets, new_size) ==
    IF i > Len(entries) THEN new_buckets
    ELSE LET idx == BucketIdx(entries[i].enum_value, new_size)
         IN  Rehash(entries, i + 1,
                    [new_buckets EXCEPT ![idx] = <<entries[i]>> \o @], new_size)

\* a resize that widens the array and leaves every chain where it was
stem_resize_map_NoRehash(map, new_size) ==
    IF new_size = 0
    THEN [map |-> map, ret |-> STEM_ERROR_INVALID_ARG]
    ELSE [map |-> [map EXCEPT
                     !.buckets = [i \in 1..new_size |->
                                    IF i <= map.num_buckets THEN map.buckets[i]
                                    ELSE <<>>],
                     !.num_buckets = new_size],
          ret |-> STEM_SUCCESS]

stem_resize_map(map, new_size) ==
    IF new_size = 0
    THEN [map |-> map, ret |-> STEM_ERROR_INVALID_ARG]
    ELSE [map |-> [map EXCEPT
                     !.buckets = Rehash(Walk(map.buckets, 1), 1,
                                        EmptyBuckets(new_size), new_size),
                     !.num_buckets = new_size],
          ret |-> STEM_SUCCESS]

\* the characters of a buffer up to its first NUL
RECURSIVE StrEnd(_, _)
StrEnd(buf, i) ==
    IF i > Len(buf) \/ buf[i] = 0 THEN i - 1 ELSE StrEnd(buf, i + 1)

strlen(buf) == StrEnd(buf, 1)

strdup(buf) == SubSeq(buf, 1, strlen(buf))

\* an entry that stores the name whatever the flags say
stem_create_entry_KeepsName(map, enum_value, value, name) ==
    [enum_value |-> enum_value,
     value |-> IF map.value_size > 0 /\ value.kind # "null"
               THEN HeapBuf(BytesAt(value, map.value_size))
               ELSE value,
     name |-> IF name # NULL THEN Ref(strdup(Deref(name))) ELSE NULL]

\* an entry whose value is copied when the map has the copy-values flag
stem_create_entry_ByFlag(map, enum_value, value, name) ==
    [enum_value |-> enum_value,
     value |-> IF HasFlag(map.flags, STEM_FLAGS_COPY_VALUES)
                  /\ value.kind # "null"
               THEN HeapBuf(BytesAt(value, map.value_size))
               ELSE value,
     name |-> IF name # NULL /\ ~HasFlag(map.flags, STEM_FLAGS_NO_NAMES)
              THEN Ref(strdup(Deref(name)))
              ELSE NULL]

\* the entry built for (enum_value, value, name)
stem_create_entry(map, enum_value, value, name) ==
    [enum_value |-> enum_value,
     value |-> IF map.value_size > 0 /\ value.kind # "null"
               THEN HeapBuf(BytesAt(value, map.value_size))
               ELSE value,
     name |-> IF name # NULL /\ ~HasFlag(map.flags, STEM_FLAGS_NO_NAMES)
              THEN Ref(strdup(Deref(name)))
              ELSE NULL]

---------------------------------------------------------------------------
(* Public operations, as functions of their arguments *)

\* the initial table width for an expected entry count
\* the width rounded up instead of truncated and incremented
InitialBuckets_Ceil(enum_count) ==
    IF enum_count * LoadDen > STEM_DEFAULT_BUCKETS * LoadNum
    THEN (enum_count * LoadDen + LoadNum - 1) \div LoadNum
    ELSE STEM_DEFAULT_BUCKETS

\* a create that ignores the expected count
InitialBuckets_Default(enum_count) == STEM_DEFAULT_BUCKETS

InitialBuckets(enum_count) ==
    IF enum_count * LoadDen > STEM_DEFAULT_BUCKETS * LoadNum
    THEN (enum_count * LoadDen) \div LoadNum + 1
    ELSE STEM_DEFAULT_BUCKETS

\* a create that accepts the expected count 0
stdem_create_ex_AcceptsZero(enum_count, value_size, flags) ==
    [map |-> Ref([count |-> 0,
                  value_size |-> value_size,
                  flags |-> flags,
                  buckets |-> EmptyBuckets(InitialBuckets(enum_count)),
                  num_buckets |-> InitialBuckets(enum_count)]),
     error |-> STEM_SUCCESS]

stdem_create_ex(enum_count, value_size, flags) ==
    IF enum_count = 0
    THEN [map |-> NULL, error |-> STEM_ERROR_INVALID_ARG]
    ELSE [map |-> Ref([count |-> 0,
                       value_size |-> value_size,
                       flags |-> flags,
                       buckets |-> EmptyBuckets(InitialBuckets(enum_count)),
                       num_buckets |-> InitialBuckets(enum_count)]),
          error |-> STEM_SUCCESS]

\* (float)count / num_buckets > STEM_LOAD_FACTOR
NeedsResize(map) == map.count * LoadDen > map.num_buckets * LoadNum

\* a link that forgets to count the entry
LinkEntry_NoCount(map, entry) ==
    LET idx == BucketIdx(entry.enum_value, map.num_buckets)
    IN  [map EXCEPT !.buckets[idx] = <<entry>> \o @]

\* a link at the tail of the chain
LinkEntry_AtTail(map, entry) ==
    LET idx == BucketIdx(entry.enum_value, map.num_buckets)
    IN  [map EXCEPT !.buckets[idx] = @ \o <<entry>>, !.count = @ + 1]

\* the new entry is linked at the head of its chain
LinkEntry(map, entry) ==
    LET idx == BucketIdx(entry.enum_value, map.num_buckets)
    IN  [map EXCEPT !.buckets[idx] = <<entry>> \o @, !.count = @ + 1]

\* an associate without the ReadOnly test
stdem_associate_ex_IgnoresReadOnly(mp, enum_value, value, name) ==
    IF mp = NULL THEN [map |-> mp, ret |-> STEM_ERROR_INVALID_ARG]
    ELSE LET map == Deref(mp) IN
    IF stem_find_entry(map, enum_value) # NULL
    THEN [map |-> mp, ret |-> STEM_ERROR_ALREADY_EXISTS]
    ELSE LET grown == IF NeedsResize(map)
                      THEN stem_resize_map(map, map.num_buckets * 2)
                      ELSE [map |-> map, ret |-> STEM_SUCCESS]
         IN  IF grown.ret # STEM_SUCCESS
             THEN [map |-> mp, ret |-> grown.ret]
             ELSE [map |-> Ref(LinkEntry(grown.map,
                               stem_create_entry(grown.map, enum_value, value, name))),
                   ret |-> STEM_SUCCESS]

\* an associate that replaces the entry of a key the map holds
stdem_associate_ex_Replaces(mp, enum_value, value, name) ==
    IF mp = NULL THEN [map |-> mp, ret |-> STEM_ERROR_INVALID_ARG]
    ELSE LET map == Deref(mp)
             idx == BucketIdx(enum_value, map.num_buckets)
             entry == stem_create_entry(map, enum_value, value, name)
         IN
    IF HasFlag(map.flags, STEM_FLAGS_READONLY)
    THEN [map |-> mp, ret |-> STEM_ERROR_INVALID_ARG]
    ELSE IF stem_find_entry(map, enum_value) # NULL
    THEN [map |-> Ref([map EXCEPT !.buckets[idx] =
                         [i \in 1..Len(@) |->
                            IF @[i].enum_value = enum_value THEN entry
                            ELSE @[i]]]),
          ret |-> STEM_SUCCESS]
    ELSE LET grown == IF NeedsResize(map)
                      THEN stem_resize_map(map, map.num_buckets * 2)
                      ELSE [map |-> map, ret |-> STEM_SUCCESS]
         IN  IF grown.ret # STEM_SUCCESS
             THEN [map |-> mp, ret |-> grown.ret]
             ELSE [map |-> Ref(LinkEntry(grown.map,
                               stem_create_entry(grown.map, enum_value, value, name))),
                   ret |-> STEM_SUCCESS]

\* mp is the EnumMap* argument; the result holds the map after the call
stdem_associate_ex(mp, enum_value, value, name) ==
    IF mp = NULL THEN [map |-> mp, ret |-> STEM_ERROR_INVALID_ARG]
    ELSE LET map == Deref(mp) IN
    IF HasFlag(map.flags, STEM_FLAGS_READONLY)
    THEN [map |-> mp, ret |-> STEM_ERROR_INVALID_ARG]
    ELSE IF stem_find_entry(map, enum_value) # NULL
    THEN [map |-> mp, ret |-> STEM_ERROR_ALREADY_EXISTS]
    ELSE LET grown == IF NeedsResize(map)
                      THEN stem_resize_map(map, map.num_buckets * 2)
                      ELSE [map |-> map, ret |-> STEM_SUCCESS]
         IN  IF grown.ret # STEM_SUCCESS
             THEN [map |-> mp, ret |-> grown.ret]
             ELSE [map |-> Ref(LinkEntry(grown.map,
                               stem_create_entry(grown.map, enum_value, value, name))),
                   ret |-> STEM_SUCCESS]

\* a lookup that reports a missing map as a missing key
stdem_get_value_ex_NullNotFound(mp, enum_value) ==
    IF mp = NULL \/ stem_find_entry(Deref(mp), enum_value) = NULL
    THEN [value |-> NullPtr, error |-> STEM_ERROR_NOT_FOUND]
    ELSE [value |-> Deref(stem_find_entry(Deref(mp), enum_value)).value,
          error |-> STEM_SUCCESS]

stdem_get_value_ex(mp, enum_value) ==
    IF mp = NULL THEN [value |-> NullPtr, error |-> STEM_ERROR_INVALID_ARG]
    ELSE LET entry == stem_find_entry(Deref(mp), enum_value)
         IN  IF entry = NULL
             THEN [value |-> NullPtr, error |-> STEM_ERROR_NOT_FOUND]
             ELSE [value |-> Deref(entry).value, error |-> STEM_SUCCESS]

\* a name lookup that reports an entry without a name as a missing key
stdem_get_name_ex_AbsentNotFound(mp, enum_value) ==
    IF mp = NULL THEN [name |-> NULL, error |-> STEM_ERROR_INVALID_ARG]
    ELSE IF \/ HasFlag(Deref(mp).flags, STEM_FLAGS_NO_NAMES)
            \/ stem_find_entry(Deref(mp), enum_value) = NULL
            \/ Deref(stem_find_entry(Deref(mp), enum_value)).name = NULL
    THEN [name |-> NULL, error |-> STEM_ERROR_NOT_FOUND]
    ELSE [name |-> Deref(stem_find_entry(Deref(mp), enum_value)).name,
          error |-> STEM_SUCCESS]

stdem_get_name_ex(mp, enum_value) ==
    IF mp = NULL THEN [name |-> NULL, error |-> STEM_ERROR_INVALID_ARG]
    ELSE IF HasFlag(Deref(mp).flags, STEM_FLAGS_NO_NAMES)
    THEN [name |-> NULL, error |-> STEM_ERROR_NOT_FOUND]
    ELSE LET entry == stem_find_entry(Deref(mp), enum_value)
         IN  IF entry = NULL
             THEN [name |-> NULL, error |-> STEM_ERROR_NOT_FOUND]
             ELSE [name |-> Deref(entry).name, error |-> STEM_SUCCESS]

\* strcmp(a, b) == 0 for two character buffers
StrEq(a, b) == strdup(a) = strdup(b)

\* the scan of entries[i..] for the first entry named name
RECURSIVE FirstNamed(_, _, _)
FirstNamed(entries, name, i) ==
    IF i > Len(entries) THEN NULL
    ELSE IF entries[i].name # NULL /\ StrEq(Deref(entries[i].name), Deref(name))
    THEN Ref(entries[i])
    ELSE FirstNamed(entries, name, i + 1)

\* a scan that keeps the last match
RECURSIVE LastNamed(_, _, _)
LastNamed(entries, name, i) ==
    IF i > Len(entries) THEN NULL
    ELSE LET later == LastNamed(entries, name, i + 1)
         IN  IF later # NULL THEN later
             ELSE IF entries[i].name # NULL
                     /\ StrEq(Deref(entries[i].name), Deref(name))
             THEN Ref(entries[i])
             ELSE NULL

stdem_find_by_name_LastMatch(mp, name) ==
    IF mp = NULL \/ name = NULL
    THEN [value |-> 0, error |-> STEM_ERROR_INVALID_ARG]
    ELSE IF HasFlag(Deref(mp).flags, STEM_FLAGS_NO_NAMES)
    THEN [value |-> 0, error |-> STEM_ERROR_NOT_FOUND]
    ELSE LET entry == LastNamed(Walk(Deref(mp).buckets, 1), name, 1)
         IN  IF entry = NULL
             THEN [value |-> 0, error |-> STEM_ERROR_NOT_FOUND]
             ELSE [value |-> Deref(entry).enum_value, error |-> STEM_SUCCESS]

\* the key returned and the error reported
stdem_find_by_name(mp, name) ==
    IF mp = NULL \/ name = NULL
    THEN [value |-> 0, error |-> STEM_ERROR_INVALID_ARG]
    ELSE IF HasFlag(Deref(mp).flags, STEM_FLAGS_NO_NAMES)
    THEN [value |-> 0, error |-> STEM_ERROR_NOT_FOUND]
    ELSE LET entry == FirstNamed(Walk(Deref(mp).buckets, 1), name, 1)
         IN  IF entry = NULL
             THEN [value |-> 0, error |-> STEM_ERROR_NOT_FOUND]
             ELSE [value |-> Deref(entry).enum_value, error |-> STEM_SUCCESS]

\* the calls the iterator receives, in order
stdem_foreach(mp) ==
    IF mp = NULL THEN [visits |-> <<>>, ret |-> STEM_ERROR_INVALID_ARG]
    ELSE LET es == Walk(Deref(mp).buckets, 1)
         IN  [visits |-> [i \in 1..Len(es) |->
                            [enum_value |-> es[i].enum_value,
                             enum_name |-> es[i].name,
                             value |-> es[i].value,
                             value_size |-> Deref(mp).value_size]],
              ret |-> STEM_SUCCESS]

stdem_count(mp) == IF mp = NULL THEN 0 ELSE Deref(mp).count

stdem_value_size(mp) == IF mp = NULL THEN 0 ELSE Deref(mp).value_size

\* a clear that gives the table its default width back
stdem_clear_ResetsWidth(mp) ==
    IF mp = NULL THEN [map |-> mp, ret |-> STEM_ERROR_INVALID_ARG]
    ELSE IF HasFlag(Deref(mp).flags, STEM_FLAGS_READONLY)
    THEN [map |-> mp, ret |-> STEM_ERROR_INVALID_ARG]
    ELSE [map |-> Ref([Deref(mp) EXCEPT
                         !.buckets = EmptyBuckets(STEM_DEFAULT_BUCKETS),
                         !.num_buckets = STEM_DEFAULT_BUCKETS,
                         !.count = 0]),
          ret |-> STEM_SUCCESS]

\* a clear that frees the chains and keeps the count
stdem_clear_KeepsCount(mp) ==
    IF mp = NULL THEN [map |-> mp, ret |-> STEM_ERROR_INVALID_ARG]
    ELSE IF HasFlag(Deref(mp).flags, STEM_FLAGS_READONLY)
    THEN [map |-> mp, ret |-> STEM_ERROR_INVALID_ARG]
    ELSE [map |-> Ref([Deref(mp) EXCEPT
                         !.buckets = EmptyBuckets(Deref(mp).num_buckets)]),
          ret |-> STEM_SUCCESS]

\* a clear without the ReadOnly test
stdem_clear_IgnoresReadOnly(mp) ==
    IF mp = NULL THEN [map |-> mp, ret |-> STEM_ERROR_INVALID_ARG]
    ELSE [map |-> Ref([Deref(mp) EXCEPT
                         !.buckets = EmptyBuckets(Deref(mp).num_buckets),
                         !.count = 0]),
          ret |-> STEM_SUCCESS]

stdem_clear(mp) ==
    IF mp = NULL THEN [map |-> mp, ret |-> STEM_ERROR_INVALID_ARG]
    ELSE IF HasFlag(Deref(mp).flags, STEM_FLAGS_READONLY)
    THEN [map |-> mp, ret |-> STEM_ERROR_INVALID_ARG]
    ELSE [map |-> Ref([Deref(mp) EXCEPT
                         !.buckets = EmptyBuckets(Deref(mp).num_buckets),
                         !.count = 0]),
          ret |-> STEM_SUCCESS]

\* the loop of associate calls that replays entries[i..] into mp
RECURSIVE Replay(_, _, _)
Replay(mp, entries, i) ==
    IF i > Len(entries) THEN [map |-> mp, ret |-> STEM_SUCCESS]
    ELSE LET r == stdem_associate_ex(mp, entries[i].enum_value,
                                     entries[i].value, entries[i].name)
         IN  IF r.ret # STEM_SUCCESS THEN r ELSE Replay(r.map, entries, i + 1)

\* a copy whose replay starts at the second entry
stdem_copy_SkipsFirst(mp) ==
    IF mp = NULL THEN [map |-> NULL, error |-> STEM_ERROR_INVALID_ARG]
    ELSE LET map == Deref(mp)
             c == stdem_create_ex(map.count, map.value_size, map.flags)
         IN  IF c.map = NULL THEN [map |-> NULL, error |-> c.error]
             ELSE LET r == Replay(c.map, Walk(map.buckets, 1), 2)
                  IN  IF r.ret # STEM_SUCCESS
                      THEN [map |-> NULL, error |-> r.ret]
                      ELSE [map |-> r.map, error |-> STEM_SUCCESS]

\* a failed replay destroys the new map
stdem_copy(mp) ==
    IF mp = NULL THEN [map |-> NULL, error |-> STEM_ERROR_INVALID_ARG]
    ELSE LET map == Deref(mp)
             c == stdem_create_ex(map.count, map.value_size, map.flags)
         IN  IF c.map = NULL THEN [map |-> NULL, error |-> c.error]
             ELSE LET r == Replay(c.map, Walk(map.buckets, 1), 1)
                  IN  IF r.ret # STEM_SUCCESS
                      THEN [map |-> NULL, error |-> r.ret]
                      ELSE [map |-> r.map, error |-> STEM_SUCCESS]

\* the map with the entry for e's key replaced by e
ReplaceEntry(map, e) ==
    LET idx == BucketIdx(e.enum_value, map.num_buckets)
        i == ChainFind(map.buckets[idx], e.enum_value, 1)
    IN  [map EXCEPT !.buckets[idx][i] = e]

\* memcpy(dst, src, n) with dst or src NULL is undefined: the process dies
\* ("crash") or address 0 is read or written like any other ("continue")
UBOutcomes == {"crash", "continue"}

CopyIsUndefined(dst, src) == dst.kind = "null" \/ src.kind = "null"

\* the overwrite of an existing entry of the merged map by map2's entry
OverwriteEntry(new_map, existing, entry) ==
    [existing EXCEPT
       !.value = IF new_map.value_size > 0
                 THEN IF existing.value.kind = "null" THEN existing.value
                      ELSE HeapBuf(BytesAt(entry.value, new_map.value_size))
                 ELSE entry.value,
       !.name = IF entry.name # NULL /\ ~HasFlag(new_map.flags, STEM_FLAGS_NO_NAMES)
                THEN Ref(strdup(Deref(entry.name)))
                ELSE NULL]

\* the loop over map2's entries[i..]
RECURSIVE MergeSecond(_, _, _, _, _)
MergeSecond(mp, entries, i, overwrite, ub) ==
    IF i > Len(entries) THEN [map |-> mp, ret |-> STEM_SUCCESS, crashed |-> FALSE]
    ELSE LET new_map == Deref(mp)
             entry == entries[i]
             existing == stem_find_entry(new_map, entry.enum_value)
         IN  IF existing # NULL
             THEN IF ~overwrite THEN MergeSecond(mp, entries, i + 1, overwrite, ub)
                  ELSE IF /\ new_map.value_size > 0
                          /\ CopyIsUndefined(Deref(existing).value, entry.value)
                          /\ ub = "crash"
                  THEN [map |-> mp, ret |-> STEM_SUCCESS, crashed |-> TRUE]
                  ELSE MergeSecond(
                         Ref(ReplaceEntry(new_map,
                               OverwriteEntry(new_map, Deref(existing), entry))),
                         entries, i + 1, overwrite, ub)
             ELSE LET r == stdem_associate_ex(mp, entry.enum_value,
                                              entry.value, entry.name)
                  IN  IF r.ret # STEM_SUCCESS
                      THEN [map |-> r.map, ret |-> r.ret, crashed |-> FALSE]
                      ELSE MergeSecond(r.map, entries, i + 1, overwrite, ub)

\* a merge that stops after replaying map1
stdem_merge_FirstOnly(mp1, mp2, overwrite, ub) ==
    IF mp1 = NULL \/ mp2 = NULL
    THEN [map |-> NULL, error |-> STEM_ERROR_INVALID_ARG, crashed |-> FALSE]
    ELSE LET map1 == Deref(mp1)
             map2 == Deref(mp2)
         IN
    IF map1.value_size # map2.value_size
    THEN [map |-> NULL, error |-> STEM_ERROR_INVALID_ARG, crashed |-> FALSE]
    ELSE LET c == stdem_create_ex(map1.count + map2.count, map1.value_size,
                                  FlagsOr(map1.flags, map2.flags))
         IN
    IF c.map = NULL THEN [map |-> NULL, error |-> c.error, crashed |-> FALSE]
    ELSE LET r1 == Replay(c.map, Walk(map1.buckets, 1), 1) IN
    IF r1.ret # STEM_SUCCESS
    THEN [map |-> NULL, error |-> r1.ret, crashed |-> FALSE]
    ELSE LET r2 == [map |-> r1.map, ret |-> STEM_SUCCESS, crashed |-> FALSE] IN
    IF r2.crashed THEN [map |-> NULL, error |-> STEM_SUCCESS, crashed |-> TRUE]
    ELSE IF r2.ret # STEM_SUCCESS
    THEN [map |-> NULL, error |-> r2.ret, crashed |-> FALSE]
    ELSE [map |-> r2.map, error |-> STEM_SUCCESS, crashed |-> FALSE]

\* a merge that overwrites whatever the flag says
stdem_merge_AlwaysOverwrites(mp1, mp2, overwrite, ub) ==
    IF mp1 = NULL \/ mp2 = NULL
    THEN [map |-> NULL, error |-> STEM_ERROR_INVALID_ARG, crashed |-> FALSE]
    ELSE LET map1 == Deref(mp1)
             map2 == Deref(mp2)
         IN
    IF map1.value_size # map2.value_size
    THEN [map |-> NULL, error |-> STEM_ERROR_INVALID_ARG, crashed |-> FALSE]
    ELSE LET c == stdem_create_ex(map1.count + map2.count, map1.value_size,
                                  FlagsOr(map1.flags, map2.flags))
         IN
    IF c.map = NULL THEN [map |-> NULL, error |-> c.error, crashed |-> FALSE]
    ELSE LET r1 == Replay(c.map, Walk(map1.buckets, 1), 1) IN
    IF r1.ret # STEM_SUCCESS
    THEN [map |-> NULL, error |-> r1.ret, crashed |-> FALSE]
    ELSE LET r2 == MergeSecond(r1.map, Walk(map2.buckets, 1), 1, TRUE, ub) IN
    IF r2.crashed THEN [map |-> NULL, error |-> STEM_SUCCESS, crashed |-> TRUE]
    ELSE IF r2.ret # STEM_SUCCESS
    THEN [map |-> NULL, error |-> r2.ret, crashed |-> FALSE]
    ELSE [map |-> r2.map, error |-> STEM_SUCCESS, crashed |-> FALSE]

\* both maps are replayed into a map created with the union of their flags
stdem_merge(mp1, mp2, overwrite, ub) ==
    IF mp1 = NULL \/ mp2 = NULL
    THEN [map |-> NULL, error |-> STEM_ERROR_INVALID_ARG, crashed |-> FALSE]
    ELSE LET map1 == Deref(mp1)
             map2 == Deref(mp2)
         IN
    IF map1.value_size # map2.value_size
    THEN [map |-> NULL, error |-> STEM_ERROR_INVALID_ARG, crashed |-> FALSE]
    ELSE LET c == stdem_create_ex(map1.count + map2.count, map1.value_size,
                                  FlagsOr(map1.flags, map2.flags))
         IN
    IF c.map = NULL THEN [map |-> NULL, error |-> c.error, crashed |-> FALSE]
    ELSE LET r1 == Replay(c.map, Walk(map1.buckets, 1), 1) IN
    IF r1.ret # STEM_SUCCESS
    THEN [map |-> NULL, error |-> r1.ret, crashed |-> FALSE]
    ELSE LET r2 == MergeSecond(r1.map, Walk(map2.buckets, 1), 1, overwrite, ub) IN
    IF r2.crashed THEN [map |-> NULL, error |-> STEM_SUCCESS, crashed |-> TRUE]
    ELSE IF r2.ret # STEM_SUCCESS
    THEN [map |-> NULL, error |-> r2.ret, crashed |-> FALSE]
    ELSE [map |-> r2.map, error |-> STEM_SUCCESS, crashed |-> FALSE]

---------------------------------------------------------------------------
(* The serialization codec *)

\* the w bytes of the unsigned x, least significant first
RECURSIVE LE(_, _)
LE(x, w) == IF w = 0 THEN <<>> ELSE <<x % Byte>> \o LE(x \div Byte, w - 1)

U32Bytes(u) == LE(u[2], 2) \o LE(u[1], 2)

\* the unsigned value of bytes[pos .. pos + w - 1]; a value past 2^31 - 1 is
\* reported as 2^31 - 1
RECURSIVE UnLE(_, _, _)
UnLE(bytes, pos, w) ==
    IF w = 0 THEN 0
    ELSE LET hi == UnLE(bytes, pos + 1, w - 1)
         IN  IF hi >= 2^23 THEN 2^31 - 1 ELSE hi * Byte + bytes[pos]

U32At(bytes, pos) == <<UnLE(bytes, pos + 2, 2), UnLE(bytes, pos, 2)>>

\* (uint16_t)strlen(name), 0 for no name
NameLen(name) == IF name = NULL THEN 0 ELSE strlen(Deref(name)) % Half

\* what the body of the write loop writes for one entry
EntryBytes(entry, value_size) ==
       U32Bytes(ToU32(entry.enum_value))
    \o LE(NameLen(entry.name), SizeofU16)
    \o (IF NameLen(entry.name) > 0
        THEN SubSeq(Deref(entry.name), 1, NameLen(entry.name)) ELSE <<>>)
    \o (IF value_size > 0 THEN BytesAt(entry.value, value_size)
        ELSE LE(entry.value.addr, SizeofPtr))

\* fwrite(entry->value, 1, value_size, stream) with a NULL value is undefined
WriteIsUndefined(entry, value_size) == value_size > 0 /\ entry.value.kind = "null"

\* the write loop over entries[i..]
RECURSIVE WriteEntries(_, _, _, _)
WriteEntries(entries, i, value_size, ub) ==
    IF i > Len(entries) THEN [bytes |-> <<>>, crashed |-> FALSE]
    ELSE IF WriteIsUndefined(entries[i], value_size) /\ ub = "crash"
    THEN [bytes |-> <<>>, crashed |-> TRUE]
    ELSE LET rest == WriteEntries(entries, i + 1, value_size, ub)
         IN  [bytes |-> EntryBytes(entries[i], value_size) \o rest.bytes,
              crashed |-> rest.crashed]

HeaderBytes(map) ==
       U32Bytes(<<MagicHi, MagicLo>>)
    \o LE(FormatVersion, SizeofU16)
    \o LE(map.count, SizeofSizeT)
    \o LE(map.value_size, SizeofSizeT)
    \o LE(map.flags, SizeofInt)

\* the bytes written to a stream that accepts every write
stdem_serialize(mp, ub) ==
    IF mp = NULL
    THEN [bytes |-> <<>>, ret |-> STEM_ERROR_INVALID_ARG, crashed |-> FALSE]
    ELSE LET map == Deref(mp)
             w == WriteEntries(Walk(map.buckets, 1), 1, map.value_size, ub)
         IN  [bytes |-> HeaderBytes(map) \o w.bytes,
              ret |-> STEM_SUCCESS,
              crashed |-> w.crashed]

\* fread of n bytes at pos succeeds
CanRead(bytes, pos, n) == pos + n - 1 <= Len(bytes)

Unread(bytes, pos) == SubSeq(bytes, pos, Len(bytes))

\* the read loop: left entries remain to be read from pos
RECURSIVE ReadEntries(_, _, _, _)
ReadEntries(mp, bytes, pos, left) ==
    IF left = 0
    THEN [map |-> mp, error |-> STEM_SUCCESS, rest |-> Unread(bytes, pos)]
    ELSE LET value_size == Deref(mp).value_size
             p1 == pos + SizeofInt
             p2 == p1 + SizeofU16
             short == [map |-> NULL, error |-> STEM_ERROR_INVALID_ARG, rest |-> <<>>]
         IN
    IF ~CanRead(bytes, pos, SizeofInt) THEN short
    ELSE IF ~CanRead(bytes, p1, SizeofU16) THEN short
    ELSE LET enum_value == ToInt(U32At(bytes, pos))
             name_len == UnLE(bytes, p1, SizeofU16)
             p3 == p2 + name_len
             vlen == IF value_size > 0 THEN value_size ELSE SizeofPtr
         IN
    IF name_len > 0 /\ ~CanRead(bytes, p2, name_len) THEN short
    ELSE IF ~CanRead(bytes, p3, vlen) THEN short
    ELSE LET name == IF name_len > 0 THEN Ref(SubSeq(bytes, p2, p3 - 1)) ELSE NULL
             value == IF value_size > 0
                      THEN HeapBuf(SubSeq(bytes, p3, p3 + vlen - 1))
                      ELSE CallerPtr(UnLE(bytes, p3, SizeofPtr))
             r == stdem_associate_ex(mp, enum_value, value, name)
         IN  IF r.ret # STEM_SUCCESS
             THEN [map |-> NULL, error |-> r.ret, rest |-> Unread(bytes, p3 + vlen)]
             ELSE ReadEntries(r.map, bytes, p3 + vlen, left - 1)

\* a reader that accepts every format version
stdem_deserialize_AnyVersion(bytes) ==
    LET pv == 1 + SizeofInt
        pc == pv + SizeofU16
        ps == pc + SizeofSizeT
        pf == ps + SizeofSizeT
        pe == pf + SizeofInt
        short == [map |-> NULL, error |-> STEM_ERROR_INVALID_ARG, rest |-> <<>>]
    IN
    IF ~CanRead(bytes, 1, SizeofInt) THEN short
    ELSE IF U32At(bytes, 1) # <<MagicHi, MagicLo>>
    THEN [map |-> NULL, error |-> STEM_ERROR_INVALID_ARG, rest |-> Unread(bytes, pv)]
    ELSE IF ~CanRead(bytes, pv, SizeofU16) THEN short
    ELSE IF ~CanRead(bytes, pf, SizeofInt) THEN short
    ELSE LET count == UnLE(bytes, pc, SizeofSizeT)
             value_size == UnLE(bytes, ps, SizeofSizeT)
             flags == UnLE(bytes, pf, SizeofInt)
             c == stdem_create_ex(count, value_size, flags)
         IN  IF c.map = NULL
             THEN [map |-> NULL, error |-> c.error, rest |-> Unread(bytes, pe)]
             ELSE ReadEntries(c.map, bytes, pe, count)

stdem_deserialize(bytes) ==
    LET pv == 1 + SizeofInt
        pc == pv + SizeofU16
        ps == pc + SizeofSizeT
        pf == ps + SizeofSizeT
        pe == pf + SizeofInt
        short == [map |-> NULL, error |-> STEM_ERROR_INVALID_ARG, rest |-> <<>>]
    IN
    IF ~CanRead(bytes, 1, SizeofInt) THEN short
    ELSE IF U32At(bytes, 1) # <<MagicHi, MagicLo>>
    THEN [map |-> NULL, error |-> STEM_ERROR_INVALID_ARG, rest |-> Unread(bytes, pv)]
    ELSE IF ~CanRead(bytes, pv, SizeofU16) THEN short
    ELSE IF UnLE(bytes, pv, SizeofU16) # FormatVersion
    THEN [map |-> NULL, error |-> STEM_ERROR_INVALID_ARG, rest |-> Unread(bytes, pc)]
    ELSE IF ~CanRead(bytes, pf, SizeofInt) THEN short
    ELSE LET count == UnLE(bytes, pc, SizeofSizeT)
             value_size == UnLE(bytes, ps, SizeofSizeT)
             flags == UnLE(bytes, pf, SizeofInt)
             c == stdem_create_ex(count, value_size, flags)
         IN  IF c.map = NULL
             THEN [map |-> NULL, error |-> c.error, rest |-> Unread(bytes, pe)]
             ELSE ReadEntries(c.map, bytes, pe, count)

---------------------------------------------------------------------------
(* The operations with their allocations: every malloc, calloc, strdup and *)
(* free they make, where one allocation of a call may fail. A map carries  *)
(* the address of its struct (at) and of its bucket array (buckets_at), an *)
(* entry its own address (at), the address of its copied value             *)
(* (value.addr) and of its name (name_at).                                 *)

\* the element of a set of one element: The({e(x) : x \in {v}}) is e(v) with
\* v computed once
The(S) == CHOOSE x \in S : TRUE

\* the heap between calls: the live addresses, whether an address that was
\* not live was ever freed, and the allocation site that failed in the last
\* call
NoHeap == [live |-> {}, bad |-> FALSE, site |-> ""]

\* the heap during a call: calls counts its allocation calls, the call
\* numbered fail returns NULL (0: none does)
Enter(hp, fail) ==
    [live |-> hp.live, bad |-> hp.bad, site |-> "", calls |-> 0, fail |-> fail]

Leave(h) == [live |-> h.live, bad |-> h.bad, site |-> h.site]

\* the lowest address that is not live
FreshAddr(live) ==
    CHOOSE a \in 1..(Cardinality(live) + 1) :
      a \notin live /\ \A b \in 1..(a - 1) : b \in live

\* malloc, calloc or strdup at the named site: p is 0 when it fails
malloc(h, site) ==
    IF h.calls + 1 = h.fail
    THEN [h |-> [h EXCEPT !.calls = @ + 1, !.site = site], p |-> 0]
    ELSE LET a == FreshAddr(h.live)
         IN  [h |-> [h EXCEPT !.calls = @ + 1, !.live = @ \cup {a}], p |-> a]

\* free(p): nothing for NULL; an address that is not live is a double or
\* invalid free
free(h, p) ==
    IF p = 0 THEN h
    ELSE IF p \in h.live THEN [h EXCEPT !.live = @ \ {p}]
    ELSE [h EXCEPT !.bad = TRUE]

\* free(entry->value)
FreeValue(h, v) ==
    IF v.kind = "null" THEN h
    ELSE IF v.kind = "heap" THEN free(h, v.addr)
    ELSE [h EXCEPT !.bad = TRUE]

\* an entry that keeps the pointer it is given when that pointer is already
\* a block of the heap, instead of copying the bytes into a block of its own
stem_create_entry_mem_SharesValue(h, map, enum_value, value, name) ==
    LET e == malloc(h, "entry") IN
    IF e.p = 0
    THEN [h |-> e.h, entry |-> NULL, ret |-> STEM_ERROR_OUT_OF_MEMORY]
    ELSE LET copies == map.value_size > 0 /\ value.kind = "caller"
             v == IF copies THEN malloc(e.h, "value") ELSE [h |-> e.h, p |-> 0]
         IN
    IF copies /\ v.p = 0
    THEN [h |-> free(v.h, e.p), entry |-> NULL, ret |-> STEM_ERROR_OUT_OF_MEMORY]
    ELSE LET named == name # NULL /\ ~HasFlag(map.flags, STEM_FLAGS_NO_NAMES)
             n == IF named THEN malloc(v.h, "name") ELSE [h |-> v.h, p |-> 0]
             held == IF copies
                     THEN [HeapBuf(BytesAt(value, map.value_size))
                             EXCEPT !.addr = v.p]
                     ELSE value
         IN
    IF named /\ n.p = 0
    THEN [h |-> free(IF copies THEN free(n.h, v.p) ELSE n.h, e.p),
          entry |-> NULL, ret |-> STEM_ERROR_OUT_OF_MEMORY]
    ELSE [h |-> n.h,
          entry |-> Ref([at |-> e.p, enum_value |-> enum_value, value |-> held,
                         name |-> IF named THEN Ref(strdup(Deref(name)))
                                  ELSE NULL,
                         name_at |-> n.p]),
          ret |-> STEM_SUCCESS]

\* an entry that keeps the caller's pointer in a map that copies values
stem_create_entry_mem_KeepsPointer(h, map, enum_value, value, name) ==
    LET e == malloc(h, "entry") IN
    IF e.p = 0
    THEN [h |-> e.h, entry |-> NULL, ret |-> STEM_ERROR_OUT_OF_MEMORY]
    ELSE LET named == name # NULL /\ ~HasFlag(map.flags, STEM_FLAGS_NO_NAMES)
             n == IF named THEN malloc(e.h, "name") ELSE [h |-> e.h, p |-> 0]
         IN
    IF named /\ n.p = 0
    THEN [h |-> free(n.h, e.p), entry |-> NULL,
          ret |-> STEM_ERROR_OUT_OF_MEMORY]
    ELSE [h |-> n.h,
          entry |-> Ref([at |-> e.p, enum_value |-> enum_value,
                         value |-> value,
                         name |-> IF named THEN Ref(strdup(Deref(name)))
                                  ELSE NULL,
                         name_at |-> n.p]),
          ret |-> STEM_SUCCESS]

stem_create_entry_mem(h, map, enum_value, value, name) ==
    LET e == malloc(h, "entry") IN
    IF e.p = 0
    THEN [h |-> e.h, entry |-> NULL, ret |-> STEM_ERROR_OUT_OF_MEMORY]
    ELSE LET copies == map.value_size > 0 /\ value.kind # "null"
             v == IF copies THEN malloc(e.h, "value") ELSE [h |-> e.h, p |-> 0]
         IN
    IF copies /\ v.p = 0
    THEN [h |-> free(v.h, e.p), entry |-> NULL, ret |-> STEM_ERROR_OUT_OF_MEMORY]
    ELSE LET named == name # NULL /\ ~HasFlag(map.flags, STEM_FLAGS_NO_NAMES)
             n == IF named THEN malloc(v.h, "name") ELSE [h |-> v.h, p |-> 0]
             built == stem_create_entry(map, enum_value, value, name)
             held == IF copies THEN [built.value EXCEPT !.addr = v.p]
                     ELSE built.value
         IN
    IF named /\ n.p = 0
    THEN [h |-> free(IF map.value_size > 0 THEN FreeValue(n.h, held) ELSE n.h,
                     e.p),
          entry |-> NULL, ret |-> STEM_ERROR_OUT_OF_MEMORY]
    ELSE [h |-> n.h,
          entry |-> Ref([at |-> e.p, enum_value |-> enum_value, value |-> held,
                         name |-> built.name, name_at |-> n.p]),
          ret |-> STEM_SUCCESS]

\* the addresses stem_free_entry hands to free, in order: the value when
\* the map copies values (an address that is no heap block is -1), the name,
\* the entry
Freed(map, entry) ==
       (IF map.value_size > 0 /\ entry.value.kind # "null"
        THEN <<IF entry.value.kind = "heap" THEN entry.value.addr ELSE -1>>
        ELSE <<>>)
    \o (IF entry.name # NULL THEN <<entry.name_at>> ELSE <<>>)
    \o <<entry.at>>

\* free of each address of ps in turn: it is invalid when one of them is
\* not live or comes twice
FreeAll(h, ps) ==
    LET nz == {i \in 1..Len(ps) : ps[i] # 0}
        set == {ps[i] : i \in nz}
    IN  [h EXCEPT !.live = @ \ set,
                  !.bad = @ \/ ~(set \subseteq h.live)
                            \/ Cardinality(set) < Cardinality(nz)]

stem_free_entry_mem(h, map, entry) == FreeAll(h, Freed(map, entry))

\* what the loops that free every entry of every chain hand to free
RECURSIVE AllFreed(_, _, _)
AllFreed(map, entries, i) ==
    IF i > Len(entries) THEN <<>>
    ELSE Freed(map, entries[i]) \o AllFreed(map, entries, i + 1)

FreeEntries(h, map, entries) == FreeAll(h, AllFreed(map, entries, 1))

\* a resize that releases the value buffers of the entries it moves
stem_resize_map_mem_FreesValues(h, map, new_size) ==
    IF new_size = 0
    THEN [h |-> h, map |-> map, ret |-> STEM_ERROR_INVALID_ARG]
    ELSE LET b == malloc(h, "buckets")
             es == Walk(map.buckets, 1)
         IN
    IF b.p = 0
    THEN [h |-> b.h, map |-> map, ret |-> STEM_ERROR_OUT_OF_MEMORY]
    ELSE [h |-> FreeAll(free(b.h, map.buckets_at),
                        [i \in 1..Len(es) |->
                           IF es[i].value.kind = "heap"
                           THEN es[i].value.addr ELSE 0]),
          map |-> [stem_resize_map(map, new_size).map EXCEPT !.buckets_at = b.p],
          ret |-> STEM_SUCCESS]

\* a resize that releases the old bucket array before it knows that the new
\* one was allocated
stem_resize_map_mem_FreesOld(h, map, new_size) ==
    IF new_size = 0
    THEN [h |-> h, map |-> map, ret |-> STEM_ERROR_INVALID_ARG]
    ELSE LET b == malloc(free(h, map.buckets_at), "buckets") IN
    IF b.p = 0
    THEN [h |-> b.h, map |-> map, ret |-> STEM_ERROR_OUT_OF_MEMORY]
    ELSE [h |-> b.h,
          map |-> [stem_resize_map(map, new_size).map EXCEPT !.buckets_at = b.p],
          ret |-> STEM_SUCCESS]

stem_resize_map_mem(h, map, new_size) ==
    IF new_size = 0
    THEN [h |-> h, map |-> map, ret |-> STEM_ERROR_INVALID_ARG]
    ELSE LET b == malloc(h, "buckets") IN
    IF b.p = 0
    THEN [h |-> b.h, map |-> map, ret |-> STEM_ERROR_OUT_OF_MEMORY]
    ELSE [h |-> free(b.h, map.buckets_at),
          map |-> [stem_resize_map(map, new_size).map EXCEPT !.buckets_at = b.p],
          ret |-> STEM_SUCCESS]

stdem_create_ex_mem(h, enum_count, value_size, flags) ==
    IF enum_count = 0
    THEN [h |-> h, map |-> NULL, error |-> STEM_ERROR_INVALID_ARG]
    ELSE LET m == malloc(h, "map") IN
    IF m.p = 0
    THEN [h |-> m.h, map |-> NULL, error |-> STEM_ERROR_OUT_OF_MEMORY]
    ELSE LET b == malloc(m.h, "array") IN
    IF b.p = 0
    THEN [h |-> free(b.h, m.p), map |-> NULL, error |-> STEM_ERROR_OUT_OF_MEMORY]
    ELSE [h |-> b.h,
          map |-> Ref([at |-> m.p, buckets_at |-> b.p, count |-> 0,
                       value_size |-> value_size, flags |-> flags,
                       num_buckets |-> InitialBuckets(enum_count),
                       buckets |-> EmptyBuckets(InitialBuckets(enum_count))]),
          error |-> STEM_SUCCESS]

stdem_destroy_mem(h, mp) ==
    IF mp = NULL THEN h
    ELSE LET map == Deref(mp)
         IN  free(free(FreeEntries(h, map, Walk(map.buckets, 1)),
                       map.buckets_at),
                  map.at)

stdem_associate_ex_mem(h, mp, enum_value, value, name) ==
    IF mp = NULL THEN [h |-> h, map |-> mp, ret |-> STEM_ERROR_INVALID_ARG]
    ELSE LET map == Deref(mp) IN
    IF HasFlag(map.flags, STEM_FLAGS_READONLY)
    THEN [h |-> h, map |-> mp, ret |-> STEM_ERROR_INVALID_ARG]
    ELSE IF stem_find_entry(map, enum_value) # NULL
    THEN [h |-> h, map |-> mp, ret |-> STEM_ERROR_ALREADY_EXISTS]
    ELSE The({
      IF grown.ret # STEM_SUCCESS
      THEN [h |-> grown.h, map |-> mp, ret |-> grown.ret]
      ELSE The({
        IF c.ret # STEM_SUCCESS
        THEN [h |-> c.h, map |-> Ref(grown.map), ret |-> c.ret]
        ELSE [h |-> c.h, map |-> Ref(LinkEntry(grown.map, Deref(c.entry))),
              ret |-> STEM_SUCCESS]
        : c \in {stem_create_entry_mem(grown.h, grown.map, enum_value, value,
                                       name)} })
      : grown \in {IF NeedsResize(map)
                   THEN stem_resize_map_mem(h, map, map.num_buckets * 2)
                   ELSE [h |-> h, map |-> map, ret |-> STEM_SUCCESS]} })

stdem_clear_mem(h, mp) ==
    IF mp = NULL THEN [h |-> h, map |-> mp, ret |-> STEM_ERROR_INVALID_ARG]
    ELSE LET map == Deref(mp) IN
    IF HasFlag(map.flags, STEM_FLAGS_READONLY)
    THEN [h |-> h, map |-> mp, ret |-> STEM_ERROR_INVALID_ARG]
    ELSE [h |-> FreeEntries(h, map, Walk(map.buckets, 1)),
          map |-> Ref([map EXCEPT !.buckets = EmptyBuckets(map.num_buckets),
                                  !.count = 0]),
          ret |-> STEM_SUCCESS]

\* the loop of associate calls that replays entries[i..] into mp
RECURSIVE Replay_mem(_, _, _, _)
Replay_mem(h, mp, entries, i) ==
    IF i > Len(entries) THEN [h |-> h, map |-> mp, ret |-> STEM_SUCCESS]
    ELSE The({
      IF r.ret # STEM_SUCCESS THEN r
      ELSE Replay_mem(r.h, r.map, entries, i + 1)
      : r \in {stdem_associate_ex_mem(h, mp, entries[i].enum_value,
                                      entries[i].value, entries[i].name)} })

\* a copy that returns after a failed replay without destroying the partial
\* map
stdem_copy_mem_LeaksPartial(h, mp) ==
    IF mp = NULL THEN [h |-> h, map |-> NULL, error |-> STEM_ERROR_INVALID_ARG]
    ELSE LET map == Deref(mp) IN
    The({
      IF c.map = NULL THEN c
      ELSE The({
        IF r.ret # STEM_SUCCESS
        THEN [h |-> r.h, map |-> NULL, error |-> r.ret]
        ELSE [h |-> r.h, map |-> r.map, error |-> STEM_SUCCESS]
        : r \in {Replay_mem(c.h, c.map, Walk(map.buckets, 1), 1)} })
      : c \in {stdem_create_ex_mem(h, map.count, map.value_size, map.flags)} })

\* a copy that destroys its source after a failed replay
stdem_copy_mem_DestroysSource(h, mp) ==
    IF mp = NULL THEN [h |-> h, map |-> NULL, error |-> STEM_ERROR_INVALID_ARG]
    ELSE LET map == Deref(mp) IN
    The({
      IF c.map = NULL THEN c
      ELSE The({
        IF r.ret # STEM_SUCCESS
        THEN [h |-> stdem_destroy_mem(r.h, mp), map |-> NULL,
              error |-> r.ret]
        ELSE [h |-> r.h, map |-> r.map, error |-> STEM_SUCCESS]
        : r \in {Replay_mem(c.h, c.map, Walk(map.buckets, 1), 1)} })
      : c \in {stdem_create_ex_mem(h, map.count, map.value_size, map.flags)} })

stdem_copy_mem(h, mp) ==
    IF mp = NULL THEN [h |-> h, map |-> NULL, error |-> STEM_ERROR_INVALID_ARG]
    ELSE LET map == Deref(mp) IN
    The({
      IF c.map = NULL THEN c
      ELSE The({
        IF r.ret # STEM_SUCCESS
        THEN [h |-> stdem_destroy_mem(r.h, r.map), map |-> NULL,
              error |-> r.ret]
        ELSE [h |-> r.h, map |-> r.map, error |-> STEM_SUCCESS]
        : r \in {Replay_mem(c.h, c.map, Walk(map.buckets, 1), 1)} })
      : c \in {stdem_create_ex_mem(h, map.count, map.value_size, map.flags)} })

\* the value of an overwritten entry: in copy mode the bytes are written
\* into the buffer the entry already owns
OverwrittenValue(new_map, existing, entry) ==
    LET v == OverwriteEntry(new_map, existing, entry).value
    IN  IF new_map.value_size > 0 /\ v.kind = "heap"
        THEN [v EXCEPT !.addr = existing.value.addr]
        ELSE v

\* an overwrite that leaves the freed name in the entry when strdup fails
OverwriteEntry_mem_KeepsFreedName(h, new_map, existing, entry) ==
    LET v == OverwrittenValue(new_map, existing, entry)
        h1 == IF existing.name # NULL THEN free(h, existing.name_at) ELSE h
    IN  IF entry.name # NULL /\ ~HasFlag(new_map.flags, STEM_FLAGS_NO_NAMES)
        THEN LET n == malloc(h1, "overwrite_name")
             IN  IF n.p = 0
                 THEN [h |-> n.h, entry |-> [existing EXCEPT !.value = v],
                       ret |-> STEM_ERROR_OUT_OF_MEMORY]
                 ELSE [h |-> n.h,
                       entry |-> [existing EXCEPT
                                    !.value = v,
                                    !.name = Ref(strdup(Deref(entry.name))),
                                    !.name_at = n.p],
                       ret |-> STEM_SUCCESS]
        ELSE [h |-> h1,
              entry |-> [existing EXCEPT !.value = v, !.name = NULL,
                                         !.name_at = 0],
              ret |-> STEM_SUCCESS]

\* the overwrite of an existing entry of the merged map by map2's entry:
\* the old name is freed, and existing->name is what strdup returned
OverwriteEntry_mem(h, new_map, existing, entry) ==
    LET v == OverwrittenValue(new_map, existing, entry)
        h1 == IF existing.name # NULL THEN free(h, existing.name_at) ELSE h
    IN  IF entry.name # NULL /\ ~HasFlag(new_map.flags, STEM_FLAGS_NO_NAMES)
        THEN LET n == malloc(h1, "overwrite_name")
             IN  IF n.p = 0
                 THEN [h |-> n.h,
                       entry |-> [existing EXCEPT !.value = v, !.name = NULL,
                                                  !.name_at = 0],
                       ret |-> STEM_ERROR_OUT_OF_MEMORY]
                 ELSE [h |-> n.h,
                       entry |-> [existing EXCEPT
                                    !.value = v,
                                    !.name = Ref(strdup(Deref(entry.name))),
                                    !.name_at = n.p],
                       ret |-> STEM_SUCCESS]
        ELSE [h |-> h1,
              entry |-> [existing EXCEPT !.value = v, !.name = NULL,
                                         !.name_at = 0],
              ret |-> STEM_SUCCESS]

\* the loop over map2's entries[i..]
RECURSIVE MergeSecond_mem(_, _, _, _, _, _)
MergeSecond_mem(h, mp, entries, i, overwrite, ub) ==
    IF i > Len(entries)
    THEN [h |-> h, map |-> mp, ret |-> STEM_SUCCESS, crashed |-> FALSE]
    ELSE LET new_map == Deref(mp)
             entry == entries[i]
             existing == stem_find_entry(new_map, entry.enum_value)
         IN  IF existing # NULL
             THEN IF ~overwrite
                  THEN MergeSecond_mem(h, mp, entries, i + 1, overwrite, ub)
                  ELSE IF /\ new_map.value_size > 0
                          /\ CopyIsUndefined(Deref(existing).value, entry.value)
                          /\ ub = "crash"
                  THEN [h |-> h, map |-> mp, ret |-> STEM_SUCCESS,
                        crashed |-> TRUE]
                  ELSE The({
                    IF o.ret # STEM_SUCCESS
                    THEN [h |-> o.h, map |-> Ref(ReplaceEntry(new_map, o.entry)),
                          ret |-> o.ret, crashed |-> FALSE]
                    ELSE MergeSecond_mem(o.h,
                                         Ref(ReplaceEntry(new_map, o.entry)),
                                         entries, i + 1, overwrite, ub)
                    : o \in {OverwriteEntry_mem(h, new_map, Deref(existing),
                                                entry)} })
             ELSE The({
                    IF r.ret # STEM_SUCCESS
                    THEN [h |-> r.h, map |-> r.map, ret |-> r.ret,
                          crashed |-> FALSE]
                    ELSE MergeSecond_mem(r.h, r.map, entries, i + 1,
                                         overwrite, ub)
                    : r \in {stdem_associate_ex_mem(h, mp, entry.enum_value,
                                                    entry.value, entry.name)} })

stdem_merge_mem(h, mp1, mp2, overwrite, ub) ==
    IF mp1 = NULL \/ mp2 = NULL
    THEN [h |-> h, map |-> NULL, error |-> STEM_ERROR_INVALID_ARG,
          crashed |-> FALSE]
    ELSE LET map1 == Deref(mp1)
             map2 == Deref(mp2)
         IN
    IF map1.value_size # map2.value_size
    THEN [h |-> h, map |-> NULL, error |-> STEM_ERROR_INVALID_ARG,
          crashed |-> FALSE]
    ELSE The({
      IF c.map = NULL
      THEN [h |-> c.h, map |-> NULL, error |-> c.error, crashed |-> FALSE]
      ELSE The({
        IF r1.ret # STEM_SUCCESS
        THEN [h |-> stdem_destroy_mem(r1.h, r1.map), map |-> NULL,
              error |-> r1.ret, crashed |-> FALSE]
        ELSE The({
          IF r2.crashed
          THEN [h |-> r2.h, map |-> NULL, error |-> STEM_SUCCESS,
                crashed |-> TRUE]
          ELSE IF r2.ret # STEM_SUCCESS
          THEN [h |-> stdem_destroy_mem(r2.h, r2.map), map |-> NULL,
                error |-> r2.ret, crashed |-> FALSE]
          ELSE [h |-> r2.h, map |-> r2.map, error |-> STEM_SUCCESS,
                crashed |-> FALSE]
          : r2 \in {MergeSecond_mem(r1.h, r1.map, Walk(map2.buckets, 1), 1,
                                    overwrite, ub)} })
        : r1 \in {Replay_mem(c.h, c.map, Walk(map1.buckets, 1), 1)} })
      : c \in {stdem_create_ex_mem(h, map1.count + map2.count,
                                   map1.value_size,
                                   FlagsOr(map1.flags, map2.flags))} })

\* a failed read loop: stdem_destroy(map) and the error
Abandon(h, mp, err) ==
    [h |-> stdem_destroy_mem(h, mp), map |-> NULL, error |-> err]

\* the read loop: left entries remain to be read from pos; the name and the
\* value are read into temporary buffers that are freed after the associate
RECURSIVE ReadEntries_mem(_, _, _, _, _)
ReadEntries_mem(h, mp, bytes, pos, left) ==
    IF left = 0 THEN [h |-> h, map |-> mp, error |-> STEM_SUCCESS]
    ELSE LET value_size == Deref(mp).value_size
             p1 == pos + SizeofInt
             p2 == p1 + SizeofU16
         IN
    IF ~CanRead(bytes, pos, SizeofInt)
    THEN Abandon(h, mp, STEM_ERROR_INVALID_ARG)
    ELSE IF ~CanRead(bytes, p1, SizeofU16)
    THEN Abandon(h, mp, STEM_ERROR_INVALID_ARG)
    ELSE LET enum_value == ToInt(U32At(bytes, pos))
             name_len == UnLE(bytes, p1, SizeofU16)
             p3 == p2 + name_len
             vlen == IF value_size > 0 THEN value_size ELSE SizeofPtr
         IN
    The({
      IF name_len > 0 /\ n.p = 0
      THEN Abandon(n.h, mp, STEM_ERROR_OUT_OF_MEMORY)
      ELSE IF name_len > 0 /\ ~CanRead(bytes, p2, name_len)
      THEN Abandon(free(n.h, n.p), mp, STEM_ERROR_INVALID_ARG)
      ELSE The({
        IF value_size > 0 /\ v.p = 0
        THEN Abandon(free(v.h, n.p), mp, STEM_ERROR_OUT_OF_MEMORY)
        ELSE IF ~CanRead(bytes, p3, vlen)
        THEN Abandon(free(free(v.h, v.p), n.p), mp, STEM_ERROR_INVALID_ARG)
        ELSE The({
          IF r.ret # STEM_SUCCESS
          THEN Abandon(free(free(r.h, n.p), v.p), r.map, r.ret)
          ELSE ReadEntries_mem(free(free(r.h, n.p), v.p), r.map, bytes,
                               p3 + vlen, left - 1)
          : r \in {stdem_associate_ex_mem(
                     v.h, mp, enum_value,
                     IF value_size > 0
                     THEN [HeapBuf(SubSeq(bytes, p3, p3 + vlen - 1))
                             EXCEPT !.addr = v.p]
                     ELSE CallerPtr(UnLE(bytes, p3, SizeofPtr)),
                     IF name_len > 0 THEN Ref(SubSeq(bytes, p2, p3 - 1))
                     ELSE NULL)} })
        : v \in {IF value_size > 0 THEN malloc(n.h, "tmp_value")
                 ELSE [h |-> n.h, p |-> 0]} })
      : n \in {IF name_len > 0 THEN malloc(h, "tmp_name")
               ELSE [h |-> h, p |-> 0]} })

stdem_deserialize_mem(h, bytes) ==
    LET pv == 1 + SizeofInt
        pc == pv + SizeofU16
        ps == pc + SizeofSizeT
        pf == ps + SizeofSizeT
        pe == pf + SizeofInt
        short == [h |-> h, map |-> NULL, error |-> STEM_ERROR_INVALID_ARG]
    IN
    IF ~CanRead(bytes, 1, SizeofInt) THEN short
    ELSE IF U32At(bytes, 1) # <<MagicHi, MagicLo>> THEN short
    ELSE IF ~CanRead(bytes, pv, SizeofU16) THEN short
    ELSE IF UnLE(bytes, pv, SizeofU16) # FormatVersion THEN short
    ELSE IF ~CanRead(bytes, pf, SizeofInt) THEN short
    ELSE The({
      IF c.map = NULL THEN c
      ELSE ReadEntries_mem(c.h, c.map, bytes, pe,
                           UnLE(bytes, pc, SizeofSizeT))
      : c \in {stdem_create_ex_mem(h, UnLE(bytes, pc, SizeofSizeT),
                                   UnLE(bytes, ps, SizeofSizeT),
                                   UnLE(bytes, pf, SizeofInt))} })

---------------------------------------------------------------------------
(* The state machine: a caller holding two maps (m1, m2), the map returned *)
(* by the last copy, merge or deserialize (out), and one stream.           *)

Slots == {"m1", "m2", "out"}

\* the keys the caller associates: 1 and -15 share a bucket of 16 and part
\* in 32
Keys == {1, -15}

ValueSizes == {0, 1}

\* the value arguments: NULL and the caller's buffers
ValueArgs == {CallerPtr(a) : a \in 0..NumPtrs}

\* the name arguments: NULL, "" and the one-character names
NameArgs == {NULL, Ref(<<>>)} \cup {Ref(<<96 + i>>) : i \in 1..NumNames}

CreateCounts == {0, 1, 13}

CreateFlags == {STEM_FLAGS_NONE, STEM_FLAGS_NO_NAMES, STEM_FLAGS_READONLY,
                STEM_FLAGS_COPY_VALUES}

\* the (enum_count, value_size, flags) the caller creates maps with: every
\* value size and flag at the hint 1, the other hints for a plain
\* reference-mode map
CreateArgs ==
    {a \in CreateCounts \X ValueSizes \X CreateFlags :
       a[1] = 1 \/ (a[2] = 0 /\ a[3] = STEM_FLAGS_NONE)}

\* the record of the last call: its name, the slots and key it was given,
\* what it returned, and whether the process died in it
Call(op, a, b, key, ret, crashed) ==
    [op |-> op, a |-> a, b |-> b, key |-> key, ret |-> ret, crashed |-> crashed]

\* the key associated i-th into a grown map: 2 and 34 share a bucket of 16
\* and of 32
FillKey(i) == IF i = 1 THEN 2 ELSE IF i = 2 THEN 34 ELSE i

\* the map after the first n associate calls of the fill
RECURSIVE Filled(_, _, _)
Filled(n, value_size, flags) ==
    IF n = 0 THEN stdem_create_ex(1, value_size, flags).map
    ELSE stdem_associate_ex(Filled(n - 1, value_size, flags), FillKey(n),
                            CallerPtr(1 + (n % NumPtrs)),
                            IF n % 3 = 0 THEN NULL ELSE Ref(<<96 + n>>)).map

\* the (value_size, flags) of the grown maps the exploration starts from
FilledConfigs == {<<1, STEM_FLAGS_NONE>>, <<0, STEM_FLAGS_NO_NAMES>>}

NoMaps == [s \in Slots |-> NULL]

\* what the caller owns besides its maps: the value pointer it keeps from a
\* lookup (none at first), and the bytes in its buffers 1..NumPtrs
NoCaller ==
    [held |-> NULL, buf |-> [a \in 1..NumPtrs |-> CallerBytes(a, 1)]]

\* the caller's two threads and the mutex they share (0: free, t: held by
\* thread t); a thread is idle, waiting for the mutex, inside a call, or
\* back from it with the call's result
Threads == {1, 2}

IdleThread ==
    [pc |-> "idle", op |-> "none", key |-> 0, paired |-> FALSE,
     found |-> FALSE, ret |-> STEM_SUCCESS]

NoThreads == [mutex |-> 0, of |-> [t \in Threads |-> IdleThread]]

Init ==
    /\ \/ maps = NoMaps
       \/ \E c \in FilledConfigs :
            maps = [NoMaps EXCEPT !["m1"] = Filled(PreFill, c[1], c[2])]
    /\ stream = <<>>
    /\ caller = NoCaller
    /\ threads = NoThreads
    /\ last = Call("none", "", "", 0, STEM_SUCCESS, FALSE)
    /\ heap = NoHeap

\* the caller finishes with a returned map and with the stream before its
\* next call on m1 or m2
Idle == maps["out"] = NULL /\ stream = <<>> /\ ~last.crashed

Create(s, enum_count, value_size, flags) ==
    /\ Idle
    /\ maps[s] = NULL
    /\ LET r == stdem_create_ex(enum_count, value_size, flags)
       IN  /\ maps' = [maps EXCEPT ![s] = r.map]
           /\ last' = Call("create", s, "", enum_count, r.error, FALSE)
    /\ UNCHANGED <<stream, heap, caller, threads>>

Destroy(s) ==
    /\ ~last.crashed
    /\ s = "out" \/ Idle
    /\ maps[s] # NULL
    /\ maps' = [maps EXCEPT ![s] = NULL]
    /\ last' = Call("destroy", s, "", 0, STEM_SUCCESS, FALSE)
    /\ UNCHANGED <<stream, heap, caller, threads>>

Associate(s, enum_value, value, name) ==
    /\ Idle
    /\ LET r == stdem_associate_ex(maps[s], enum_value, value, name)
       IN  /\ maps' = [maps EXCEPT ![s] = r.map]
           /\ last' = Call("associate", s, "", enum_value, r.ret, FALSE)
    /\ UNCHANGED <<stream, heap, caller, threads>>

Clear(s) ==
    /\ Idle
    /\ LET r == stdem_clear(maps[s])
       IN  /\ maps' = [maps EXCEPT ![s] = r.map]
           /\ last' = Call("clear", s, "", 0, r.ret, FALSE)
    /\ UNCHANGED <<stream, heap, caller, threads>>

Copy(s) ==
    /\ Idle
    /\ LET r == stdem_copy(maps[s])
       IN  /\ maps' = [maps EXCEPT !["out"] = r.map]
           /\ last' = Call("copy", s, "", 0, r.error, FALSE)
    /\ UNCHANGED <<stream, heap, caller, threads>>

Merge(a, b, overwrite, ub) ==
    /\ Idle
    /\ LET r == stdem_merge(maps[a], maps[b], overwrite, ub)
       IN  /\ maps' = [maps EXCEPT !["out"] = r.map]
           /\ last' = Call(IF overwrite THEN "merge_overwrite" ELSE "merge",
                           a, b, 0, r.error, r.crashed)
    /\ UNCHANGED <<stream, heap, caller, threads>>

Serialize(s, ub) ==
    /\ Idle
    /\ LET r == stdem_serialize(maps[s], ub)
       IN  /\ stream' = r.bytes
           /\ last' = Call("serialize", s, "", 0, r.ret, r.crashed)
    /\ UNCHANGED <<maps, heap, caller, threads>>

\* the stream is read once, from its start; b names the map it was written
\* from
Deserialize ==
    /\ ~last.crashed
    /\ maps["out"] = NULL
    /\ stream # <<>>
    /\ UNCHANGED <<heap, caller, threads>>
    /\ LET r == stdem_deserialize(stream)
       IN  /\ maps' = [maps EXCEPT !["out"] = r.map]
           /\ stream' = r.rest
           /\ last' = Call("deserialize", "",
                           IF last.op = "serialize" THEN last.a ELSE "",
                           0, r.error, FALSE)

\* one map, its copies and its streams
Next ==
    \/ \E a \in CreateArgs : Create("m1", a[1], a[2], a[3])
    \/ \E s \in {"m1", "out"} : Destroy(s)
    \/ \E k \in Keys, v \in ValueArgs, n \in NameArgs : Associate("m1", k, v, n)
    \/ Clear("m1")
    \/ Copy("m1")
    \/ \E o \in BOOLEAN, ub \in UBOutcomes : Merge("m1", "m1", o, ub)
    \/ \E ub \in UBOutcomes : Serialize("m1", ub)
    \/ Deserialize

Spec == Init /\ [][Next]_vars

---------------------------------------------------------------------------
(* Two maps and their merges *)

\* the (value, name) pairs the caller associates in the merge runs
MergeArgs ==
    { <<CallerPtr(1), Ref(<<97>>)>>,
      <<CallerPtr(NumPtrs), NULL>>,
      <<NullPtr, Ref(<<98>>)>> }

MergeFlags == {STEM_FLAGS_NONE, STEM_FLAGS_NO_NAMES, STEM_FLAGS_READONLY}

Live(s) == IF maps[s] = NULL THEN 0 ELSE Deref(maps[s]).count

\* m1 and m2 range over the same maps, so the value sizes are taken in one
\* order
InitMerge ==
    /\ \E vs1 \in ValueSizes, vs2 \in ValueSizes,
          f1 \in MergeFlags, f2 \in MergeFlags :
         /\ vs1 >= vs2
         /\ maps = [NoMaps EXCEPT !["m1"] = stdem_create_ex(2, vs1, f1).map,
                                  !["m2"] = stdem_create_ex(2, vs2, f2).map]
    /\ stream = <<>>
    /\ caller = NoCaller
    /\ threads = NoThreads
    /\ last = Call("none", "", "", 0, STEM_SUCCESS, FALSE)
    /\ heap = NoHeap

NextMerge ==
    \/ \E s \in {"m1", "m2"}, k \in Keys, vn \in MergeArgs :
         /\ Live("m1") + Live("m2") < MaxLive
         /\ Associate(s, k, vn[1], vn[2])
    \/ \E o \in BOOLEAN, ub \in UBOutcomes : Merge("m1", "m2", o, ub)
    \/ Destroy("out")

SpecMerge == InitMerge /\ [][NextMerge]_vars

---------------------------------------------------------------------------
(* Observations the properties are stated in *)

\* the live entries of a map: those linked in its chains
Entries(map) == Walk(map.buckets, 1)

KeysOf(map) ==
    LET e == Entries(map) IN {e[i].enum_value : i \in 1..Len(e)}

\* the live entry with key k
EntryOf(map, k) ==
    LET e == Entries(map) IN e[CHOOSE i \in 1..Len(e) : e[i].enum_value = k]

\* how many live entries have key k
Occurrences(map, k) ==
    LET e == Entries(map) IN Cardinality({i \in 1..Len(e) : e[i].enum_value = k})

NoDuplicateKey(map) ==
    LET e == Entries(map)
    IN  \A i, j \in 1..Len(e) : e[i].enum_value = e[j].enum_value => i = j

\* the map in slot s before the step, when the step is the call op on s
Called(op, s) == last'.op = op /\ last'.a = s /\ maps[s] # NULL

---------------------------------------------------------------------------
(* C1 *)

\* C1, first half: in every reachable state no two live entries of a map
\* (m1, m2 or a returned map) share a key.
C1_Unique == \A s \in Slots : maps[s] # NULL => NoDuplicateKey(Deref(maps[s]))

\* C1, second half: an associate call for a key the map already holds returns
\* AlreadyExists and leaves count and the entry's value and name unchanged.
C1_Duplicate ==
    \A s \in Slots :
      (Called("associate", s) /\ last'.key \in KeysOf(Deref(maps[s]))) =>
         /\ last'.ret = STEM_ERROR_ALREADY_EXISTS
         /\ maps'[s] # NULL
         /\ Deref(maps'[s]).count = Deref(maps[s]).count
         /\ Occurrences(Deref(maps'[s]), last'.key) = 1
         /\ EntryOf(Deref(maps'[s]), last'.key) = EntryOf(Deref(maps[s]), last'.key)

\* C1 (key uniqueness): no two live entries of a map ever share a key, and an
\* associate call for a key already held fails with AlreadyExists without
\* changing count or the held entry's value and name.
C1_KeyUniqueness == []C1_Unique /\ [][C1_Duplicate]_vars

\* an associate call was refused for a key the map holds
C1_Witness ==
    /\ last.op = "associate"
    /\ last.ret = STEM_ERROR_ALREADY_EXISTS
    /\ maps[last.a] # NULL
    /\ last.key \in KeysOf(Deref(maps[last.a]))
    /\ Deref(maps[last.a]).count >= 2

---------------------------------------------------------------------------
(* C2 *)

\* C2 (load factor): immediately after every successful associate,
\* count / num_buckets <= 0.75.
C2_LoadFactor ==
    \A s \in Slots :
      (last.op = "associate" /\ last.a = s /\ last.ret = STEM_SUCCESS) =>
         Deref(maps[s]).count * LoadDen <= Deref(maps[s]).num_buckets * LoadNum

---------------------------------------------------------------------------
(* C3 *)

\* the step is an associate call on s that grew the table
Grew(s) ==
    /\ Called("associate", s)
    /\ maps'[s] # NULL
    /\ Deref(maps'[s]).num_buckets # Deref(maps[s]).num_buckets

\* entry e, live before the step, is live after it, once, and iteration
\* visits it once
Kept(before, after, e) ==
    /\ Occurrences(Deref(after), e.enum_value) = 1
    /\ EntryOf(Deref(after), e.enum_value) = e
    /\ stdem_get_value_ex(after, e.enum_value) =
         [value |-> e.value, error |-> STEM_SUCCESS]
    /\ Cardinality({i \in DOMAIN stdem_foreach(after).visits :
                      stdem_foreach(after).visits[i] =
                        [enum_value |-> e.enum_value, enum_name |-> e.name,
                         value |-> e.value,
                         value_size |-> Deref(before).value_size]}) = 1
    /\ Cardinality({i \in DOMAIN stdem_foreach(after).visits :
                      stdem_foreach(after).visits[i].enum_value = e.enum_value}) = 1

\* C3 as stated: a growing associate keeps every entry, found by get_value
\* and by get_name and visited once, and count grows by one.
C3_Stated ==
    \A s \in Slots :
      Grew(s) =>
        /\ last'.ret = STEM_SUCCESS
        /\ Deref(maps'[s]).count = Deref(maps[s]).count + 1
        /\ Len(Entries(Deref(maps'[s]))) = Len(Entries(Deref(maps[s]))) + 1
        /\ \A i \in 1..Len(Entries(Deref(maps[s]))) :
             LET e == Entries(Deref(maps[s]))[i]
             IN  /\ Kept(maps[s], maps'[s], e)
                 /\ stdem_get_name_ex(maps'[s], e.enum_value) =
                      [name |-> e.name, error |-> STEM_SUCCESS]

C3_Original == [][C3_Stated]_vars

\* C3 as amended: get_name finds the entry unless the map is flagged NoNames,
\* where it reports NotFound after the call as before it.
C3_Amended ==
    \A s \in Slots :
      Grew(s) =>
        /\ last'.ret = STEM_SUCCESS
        /\ Deref(maps'[s]).count = Deref(maps[s]).count + 1
        /\ Len(Entries(Deref(maps'[s]))) = Len(Entries(Deref(maps[s]))) + 1
        /\ \A i \in 1..Len(Entries(Deref(maps[s]))) :
             LET e == Entries(Deref(maps[s]))[i]
             IN  /\ Kept(maps[s], maps'[s], e)
                 /\ stdem_get_name_ex(maps'[s], e.enum_value) =
                      stdem_get_name_ex(maps[s], e.enum_value)
                 /\ stdem_get_name_ex(maps'[s], e.enum_value) =
                      IF HasFlag(Deref(maps[s]).flags, STEM_FLAGS_NO_NAMES)
                      THEN [name |-> NULL, error |-> STEM_ERROR_NOT_FOUND]
                      ELSE [name |-> e.name, error |-> STEM_SUCCESS]

\* C3 (resize preserves all entries), amended: an associate call that grows
\* the table keeps every live entry with its key, value and name, found by
\* get_value (and by get_name unless the map is NoNames) and visited exactly
\* once by for_each, and count is the previous count plus one.
C3_ResizePreserves == [][C3_Amended]_vars

\* the last associate doubled the 16 buckets of a map holding more than 12
\* entries
C3_Witness ==
    /\ last.op = "associate"
    /\ last.ret = STEM_SUCCESS
    /\ maps["m1"] # NULL
    /\ Deref(maps["m1"]).num_buckets = 2 * STEM_DEFAULT_BUCKETS
    /\ (Deref(maps["m1"]).count - 1) * LoadDen > STEM_DEFAULT_BUCKETS * LoadNum
    /\ (Deref(maps["m1"]).count - 2) * LoadDen <= STEM_DEFAULT_BUCKETS * LoadNum

---------------------------------------------------------------------------
(* C4, C5 *)

\* map b shows key k as map a does: the same value, the same name
SameAt(a, b, k) ==
    /\ stdem_get_value_ex(a, k) = stdem_get_value_ex(b, k)
    /\ stdem_get_name_ex(a, k) = stdem_get_name_ex(b, k)

\* b is observably equal to a: same count, and every key of either is held
\* by both with the same value and name
ObservablyEqual(a, b) ==
    /\ b # NULL
    /\ stdem_count(b) = stdem_count(a)
    /\ KeysOf(Deref(b)) = KeysOf(Deref(a))
    /\ \A k \in KeysOf(Deref(a)) :
         /\ stdem_get_value_ex(b, k).error = STEM_SUCCESS
         /\ SameAt(a, b, k)

\* C4 (round-trip copy): copy of a populated map succeeds and yields a map
\* with the same count, the same keys and, for every key, the same value and
\* the same name.
C4_CopyRoundTrip ==
    \A s \in Slots :
      (last.op = "copy" /\ last.a = s /\ maps[s] # NULL /\ stdem_count(maps[s]) >= 1) =>
         /\ last.ret = STEM_SUCCESS
         /\ ObservablyEqual(maps[s], maps["out"])

\* a map with two colliding keys, one named, was copied
C4_Witness ==
    /\ last.op = "copy"
    /\ last.ret = STEM_SUCCESS
    /\ maps["out"] # NULL
    /\ stdem_count(maps["m1"]) >= 2
    /\ \E k \in KeysOf(Deref(maps["m1"])) : stdem_get_name_ex(maps["out"], k).name # NULL
    /\ \E k \in KeysOf(Deref(maps["m1"])) :
         stdem_get_value_ex(maps["out"], k).value.kind = "heap"

\* every entry holds value bytes (none was associated with a NULL value)
AllValuesHeld(map) ==
    \A i \in 1..Len(Entries(map)) : Entries(map)[i].value.kind # "null"

\* C5 (round-trip serialization): for a populated copy-mode map,
\* deserialize(serialize(M)) succeeds with the same count, value_size and
\* flags and, for every key, the same value bytes and the same get_name
\* result, whether the name is absent, empty or non-empty. Stated here for
\* the maps whose entries all hold value bytes.
C5_SerializeRoundTrip ==
    \A s \in Slots :
      (/\ last.op = "deserialize" /\ last.b = s
       /\ maps[s] # NULL
       /\ stdem_count(maps[s]) >= 1
       /\ stdem_value_size(maps[s]) > 0
       /\ AllValuesHeld(Deref(maps[s]))) =>
         /\ last.ret = STEM_SUCCESS
         /\ ObservablyEqual(maps[s], maps["out"])
         /\ stdem_value_size(maps["out"]) = stdem_value_size(maps[s])
         /\ Deref(maps["out"]).flags = Deref(maps[s]).flags

---------------------------------------------------------------------------
(* C6, C7, C8: merge(A, B, overwrite), A in slot last.a, B in slot last.b *)

MergedA == Deref(maps[last.a])
MergedB == Deref(maps[last.b])
Merged == Deref(maps["out"])

\* the last call was a merge that returned a map
MergeReturned(op) ==
    last.op = op /\ ~last.crashed /\ last.ret = STEM_SUCCESS /\ maps["out"] # NULL

InBoth == KeysOf(MergedA) \cap KeysOf(MergedB)

\* the name the result holds for an entry named n
ResultName(n) ==
    IF HasFlag(Merged.flags, STEM_FLAGS_NO_NAMES) THEN NULL ELSE n

\* the result holds value v and name n for key k
ResultHolds(k, v, n) ==
    /\ stdem_get_value_ex(maps["out"], k) = [value |-> v, error |-> STEM_SUCCESS]
    /\ Occurrences(Merged, k) = 1
    /\ EntryOf(Merged, k).name = n

\* C6 as stated: without overwrite, a key of both inputs holds exactly A's
\* value and A's name in the result.
C6_Original ==
    MergeReturned("merge") =>
      \A k \in InBoth :
        ResultHolds(k, EntryOf(MergedA, k).value, EntryOf(MergedA, k).name)

\* C6 (merge without overwrite preserves map1), amended: for every key of
\* both inputs a successful merge(A, B, false) holds A's value, and A's name
\* unless the result is flagged NoNames (by A or by B), where it holds no
\* name; B's entry has no effect.
C6_MergeKeepsFirst ==
    MergeReturned("merge") =>
      \A k \in InBoth :
        ResultHolds(k, EntryOf(MergedA, k).value,
                    ResultName(EntryOf(MergedA, k).name))

\* a merge without overwrite met a key whose value and name differ in A and B
C6_Witness ==
    /\ MergeReturned("merge")
    /\ last.a # last.b
    /\ \E k \in InBoth :
         /\ EntryOf(MergedA, k).value # EntryOf(MergedB, k).value
         /\ EntryOf(MergedA, k).name # EntryOf(MergedB, k).name
         /\ EntryOf(MergedA, k).name # NULL
         /\ EntryOf(Merged, k).name # NULL

\* C7 (merge with overwrite prefers map2): for every key of both inputs,
\* merge(A, B, true) holds B's value, and B's name, or none when B's entry
\* has no name or the result is flagged NoNames; the overwrite does not
\* change the result's count.
C7_MergePrefersSecond ==
    last.op = "merge_overwrite" =>
      /\ ~last.crashed
      /\ MergeReturned("merge_overwrite") =>
           /\ \A k \in InBoth :
                ResultHolds(k, EntryOf(MergedB, k).value,
                            ResultName(EntryOf(MergedB, k).name))
           /\ stdem_count(maps["out"]) =
                Cardinality(KeysOf(MergedA) \cup KeysOf(MergedB))

\* C8 (merge key set): a successful merge holds exactly the keys of A and of
\* B, count is the size of that union, and a key of one input only carries
\* that input's value, and its name unless the result is flagged NoNames.
C8_MergeKeySet ==
    (MergeReturned("merge") \/ MergeReturned("merge_overwrite")) =>
      /\ KeysOf(Merged) = KeysOf(MergedA) \cup KeysOf(MergedB)
      /\ stdem_count(maps["out"]) = Cardinality(KeysOf(MergedA) \cup KeysOf(MergedB))
      /\ Len(Entries(Merged)) = stdem_count(maps["out"])
      /\ \A k \in KeysOf(MergedA) \ KeysOf(MergedB) :
           ResultHolds(k, EntryOf(MergedA, k).value,
                       ResultName(EntryOf(MergedA, k).name))
      /\ \A k \in KeysOf(MergedB) \ KeysOf(MergedA) :
           ResultHolds(k, EntryOf(MergedB, k).value,
                       ResultName(EntryOf(MergedB, k).name))

\* a merge with overwrite returned a map for inputs that share a key, where
\* B also holds a key of its own
C8_Witness ==
    /\ MergeReturned("merge_overwrite")
    /\ InBoth # {}
    /\ KeysOf(MergedB) \ KeysOf(MergedA) # {}
    /\ stdem_count(maps["out"]) = 2

---------------------------------------------------------------------------
(* C9, C10 *)

\* C9 as a step: a successful clear empties the map and keeps its width,
\* value size and flags; every key held before is NotFound; any key can be
\* associated again.
C9_Step ==
    \A s \in Slots :
      (Called("clear", s) /\ last'.ret = STEM_SUCCESS) =>
        /\ maps'[s] # NULL
        /\ stdem_count(maps'[s]) = 0
        /\ \A i \in 1..Deref(maps'[s]).num_buckets : Deref(maps'[s]).buckets[i] = <<>>
        /\ Len(Deref(maps'[s]).buckets) = Deref(maps'[s]).num_buckets
        /\ Deref(maps'[s]).num_buckets = Deref(maps[s]).num_buckets
        /\ Deref(maps'[s]).value_size = Deref(maps[s]).value_size
        /\ Deref(maps'[s]).flags = Deref(maps[s]).flags
        /\ \A k \in KeysOf(Deref(maps[s])) :
             /\ stdem_get_value_ex(maps'[s], k).error = STEM_ERROR_NOT_FOUND
             /\ stdem_get_name_ex(maps'[s], k).error = STEM_ERROR_NOT_FOUND
        /\ \A k \in Keys \cup KeysOf(Deref(maps[s])), v \in ValueArgs, n \in NameArgs :
             stdem_associate_ex(maps'[s], k, v, n).ret = STEM_SUCCESS

\* an associate call that directly follows a successful clear succeeds
C9_Following ==
    \A s \in Slots :
      (/\ last.op = "clear" /\ last.a = s /\ last.ret = STEM_SUCCESS
       /\ Called("associate", s)) =>
         /\ last'.ret = STEM_SUCCESS
         /\ stdem_count(maps'[s]) = 1

\* C9 (clear empties but preserves capacity): after a successful clear the
\* count is 0, every chain is empty, every key held before is NotFound,
\* num_buckets, value_size and flags are unchanged, and a following associate
\* of any key succeeds.
C9_ClearEmpties == [][C9_Step /\ C9_Following]_vars

\* a grown map that held entries was cleared and kept its 32 buckets
C9_Witness ==
    /\ last.op = "clear"
    /\ last.ret = STEM_SUCCESS
    /\ maps["m1"] # NULL
    /\ stdem_count(maps["m1"]) = 0
    /\ Deref(maps["m1"]).num_buckets = 2 * STEM_DEFAULT_BUCKETS

\* C10 as a step: associate and clear on a ReadOnly map return
\* InvalidArgument and leave the map as it was.
C10_Step ==
    \A s \in Slots :
      (/\ Called("associate", s) \/ Called("clear", s)
       /\ HasFlag(Deref(maps[s]).flags, STEM_FLAGS_READONLY)) =>
         /\ last'.ret = STEM_ERROR_INVALID_ARG
         /\ maps'[s] = maps[s]

\* C10 (ReadOnly rejects mutation): on a ReadOnly map associate, for any
\* key, and clear return InvalidArgument and change neither count,
\* num_buckets nor any chain.
C10_ReadOnlyRejects == [][C10_Step]_vars

\* clear was refused on a ReadOnly map
C10_Witness ==
    /\ last.op = "clear"
    /\ last.ret = STEM_ERROR_INVALID_ARG
    /\ maps["m1"] # NULL
    /\ HasFlag(Deref(maps["m1"]).flags, STEM_FLAGS_READONLY)

---------------------------------------------------------------------------
(* C11 *)

\* the names a caller may look up: those it passes to associate and those
\* of the fill
LookupNames ==
    (NameArgs \ {NULL}) \cup {Ref(<<96 + i>>) : i \in 1..PreFill}

\* the keys a caller may look up
LookupKeys == Keys \cup {FillKey(i) : i \in 1..PreFill}

\* C11 (NoNames suppresses names): in a map flagged NoNames no entry stores
\* a name, get_name reports NotFound for every key, held or not, and
\* find_by_name reports NotFound for every name, also for the names that
\* were passed to associate.
C11_NoNames ==
    \A s \in Slots :
      (maps[s] # NULL /\ HasFlag(Deref(maps[s]).flags, STEM_FLAGS_NO_NAMES)) =>
        /\ \A i \in 1..Len(Entries(Deref(maps[s]))) :
             Entries(Deref(maps[s]))[i].name = NULL
        /\ \A k \in LookupKeys \cup KeysOf(Deref(maps[s])) :
             stdem_get_name_ex(maps[s], k) =
               [name |-> NULL, error |-> STEM_ERROR_NOT_FOUND]
        /\ \A n \in LookupNames :
             stdem_find_by_name(maps[s], n) =
               [value |-> 0, error |-> STEM_ERROR_NOT_FOUND]

\* a NoNames map holds the keys of the fill, which were associated with
\* names, and one more key
C11_Witness ==
    /\ last.op = "associate"
    /\ last.ret = STEM_SUCCESS
    /\ maps["m1"] # NULL
    /\ HasFlag(Deref(maps["m1"]).flags, STEM_FLAGS_NO_NAMES)
    /\ FillKey(1) \in KeysOf(Deref(maps["m1"]))
    /\ last.key \in KeysOf(Deref(maps["m1"]))

---------------------------------------------------------------------------
(* C12 *)

\* the keys get_value finds
Findable(mp) ==
    {k \in LookupKeys \cup KeysOf(Deref(mp)) :
       stdem_get_value_ex(mp, k).error = STEM_SUCCESS}

\* C12 (for_each completeness): for_each returns Success and calls the
\* visitor exactly count times, once for each live entry (each key that
\* lookup finds, and no other), with the entry's key, name, value and the
\* map's value_size.
C12_ForEachComplete ==
    \A s \in Slots :
      maps[s] # NULL =>
        LET r == stdem_foreach(maps[s])
            map == Deref(maps[s])
        IN  /\ r.ret = STEM_SUCCESS
            /\ Len(r.visits) = stdem_count(maps[s])
            /\ {r.visits[i].enum_value : i \in 1..Len(r.visits)} = Findable(maps[s])
            /\ \A i, j \in 1..Len(r.visits) :
                 r.visits[i].enum_value = r.visits[j].enum_value => i = j
            /\ \A i \in 1..Len(r.visits) :
                 /\ r.visits[i].value =
                      stdem_get_value_ex(maps[s], r.visits[i].enum_value).value
                 /\ r.visits[i].enum_name =
                      Deref(stem_find_entry(map, r.visits[i].enum_value)).name
                 /\ r.visits[i].value_size = stdem_value_size(maps[s])

\* a grown map with colliding keys is iterated
C12_Witness ==
    /\ maps["m1"] # NULL
    /\ Deref(maps["m1"]).num_buckets = 2 * STEM_DEFAULT_BUCKETS
    /\ Len(stdem_foreach(maps["m1"]).visits) = PreFill + 2
    /\ \E i \in 1..Deref(maps["m1"]).num_buckets :
         Len(Deref(maps["m1"]).buckets[i]) >= 2

---------------------------------------------------------------------------
(* C13 *)

\* the keys in the order for_each visits them
VisitKeys(mp) ==
    LET v == stdem_foreach(mp).visits IN [i \in 1..Len(v) |-> v[i].enum_value]

\* key a is visited before key b
VisitedBefore(mp, a, b) ==
    LET v == VisitKeys(mp)
    IN  \E i, j \in 1..Len(v) : i < j /\ v[i] = a /\ v[j] = b

SameBucket(mp, a, b) ==
    BucketIdx(a, Deref(mp).num_buckets) = BucketIdx(b, Deref(mp).num_buckets)

\* the buckets are visited in ascending index order
BucketsAscending(mp) ==
    LET v == VisitKeys(mp)
    IN  \A i, j \in 1..Len(v) :
          i < j => BucketIdx(v[i], Deref(mp).num_buckets)
                     <= BucketIdx(v[j], Deref(mp).num_buckets)

\* a successful associate on s: the new entry is visited before the older
\* entries of its bucket, and two older entries that share a bucket keep
\* their order when keeps holds and swap it otherwise
OrderAfterAssociate(s, keeps) ==
    (Called("associate", s) /\ last'.ret = STEM_SUCCESS) =>
      LET old == KeysOf(Deref(maps[s])) IN
        /\ BucketsAscending(maps'[s])
        /\ \A a \in old :
             SameBucket(maps'[s], last'.key, a) =>
               VisitedBefore(maps'[s], last'.key, a)
        /\ \A a, b \in old :
             (a # b /\ SameBucket(maps'[s], a, b)) =>
               (VisitedBefore(maps'[s], a, b) <=>
                  IF keeps THEN VisitedBefore(maps[s], a, b)
                  ELSE VisitedBefore(maps[s], b, a))

\* C13 as stated: every successful associate, growing or not, leaves each
\* bucket most-recently-inserted-first.
C13_Original == [][\A s \in Slots : OrderAfterAssociate(s, TRUE)]_vars

\* C13 (iteration order), amended: for_each visits buckets in ascending
\* index order; an associate that does not grow the table puts the new entry
\* first in its bucket and keeps the order of the others (most recent first
\* in a table that never grew); an associate that grows the table puts the
\* new entry first and reverses the order of the older entries that share a
\* bucket.
C13_IterationOrder ==
    [][\A s \in Slots : OrderAfterAssociate(s, ~Grew(s))]_vars

\* the table grew holding 2 and 34, which share a bucket before and after,
\* and 2, associated first, is now visited first
C13_Witness ==
    /\ last.op = "associate"
    /\ last.ret = STEM_SUCCESS
    /\ maps["m1"] # NULL
    /\ Deref(maps["m1"]).num_buckets = 2 * STEM_DEFAULT_BUCKETS
    /\ Deref(maps["m1"]).count = PreFill + 2
    /\ SameBucket(maps["m1"], FillKey(1), FillKey(2))
    /\ VisitedBefore(maps["m1"], FillKey(1), FillKey(2))

---------------------------------------------------------------------------
(* C14 *)

\* the positions, in iteration order, of the entries named n
NamedAt(mp, n) ==
    LET e == Entries(Deref(mp))
    IN  {i \in 1..Len(e) : e[i].name # NULL /\ Deref(e[i].name) = Deref(n)}

Least(S) == CHOOSE i \in S : \A j \in S : i <= j

\* C14 (find_by_name): on a map without NoNames, find_by_name(n) returns
\* Success and the key of the first entry in iteration order whose name is
\* n, a key get_name maps back to n; NotFound and 0 when no entry is named
\* n; and the one key associated with n when only one is.
C14_FindByName ==
    \A s \in Slots :
      (maps[s] # NULL /\ ~HasFlag(Deref(maps[s]).flags, STEM_FLAGS_NO_NAMES)) =>
        \A n \in LookupNames :
          LET r == stdem_find_by_name(maps[s], n)
              at == NamedAt(maps[s], n)
          IN  IF at = {}
              THEN r = [value |-> 0, error |-> STEM_ERROR_NOT_FOUND]
              ELSE /\ r.error = STEM_SUCCESS
                   /\ r.value = Entries(Deref(maps[s]))[Least(at)].enum_value
                   /\ stdem_get_name_ex(maps[s], r.value) =
                        [name |-> n, error |-> STEM_SUCCESS]
                   /\ Cardinality(at) = 1 =>
                        \A k \in KeysOf(Deref(maps[s])) :
                          stdem_get_name_ex(maps[s], k).name = n => k = r.value

\* two entries carry the same name and a third name is unique
C14_Witness ==
    /\ maps["m1"] # NULL
    /\ ~HasFlag(Deref(maps["m1"]).flags, STEM_FLAGS_NO_NAMES)
    /\ \E n \in LookupNames : Cardinality(NamedAt(maps["m1"], n)) = 2
    /\ \E n \in LookupNames : Cardinality(NamedAt(maps["m1"], n)) = 1

---------------------------------------------------------------------------
(* C15: create alone, over every hint up to MaxCount *)

\* the largest enum_count passed to create
MaxCount == 24

NextCreate ==
    \/ \E n \in 0..MaxCount, vs \in ValueSizes, f \in CreateFlags :
         Create("m1", n, vs, f)
    \/ Destroy("m1")

InitCreate ==
    /\ maps = NoMaps
    /\ stream = <<>>
    /\ caller = NoCaller
    /\ threads = NoThreads
    /\ last = Call("none", "", "", 0, STEM_SUCCESS, FALSE)
    /\ heap = NoHeap

SpecCreate == InitCreate /\ [][NextCreate]_vars

\* create(n, ...) fails with InvalidArgument for n = 0 and otherwise yields
\* an empty map of the given width
CreateYields(width) ==
    last.op = "create" =>
      IF last.key = 0
      THEN last.ret = STEM_ERROR_INVALID_ARG /\ maps[last.a] = NULL
      ELSE /\ last.ret = STEM_SUCCESS
           /\ maps[last.a] # NULL
           /\ stdem_count(maps[last.a]) = 0
           /\ Entries(Deref(maps[last.a])) = <<>>
           /\ Len(Deref(maps[last.a]).buckets) = Deref(maps[last.a]).num_buckets
           /\ Deref(maps[last.a]).num_buckets = width

\* ceil(n / 0.75)
CeilLoad(n) == (n * LoadDen + LoadNum - 1) \div LoadNum

\* C15 as stated: num_buckets is max(16, ceil(n / 0.75)).
C15_Original ==
    CreateYields(IF CeilLoad(last.key) > STEM_DEFAULT_BUCKETS
                 THEN CeilLoad(last.key) ELSE STEM_DEFAULT_BUCKETS)

\* C15 (initial sizing), amended: create fails with InvalidArgument and no
\* map for n = 0; for n >= 1 (allocation succeeding) it yields an empty map
\* whose num_buckets is 16 when n <= 12 and floor(n / 0.75) + 1 otherwise.
C15_InitialSizing ==
    CreateYields(IF last.key * LoadDen <= STEM_DEFAULT_BUCKETS * LoadNum
                 THEN STEM_DEFAULT_BUCKETS
                 ELSE (last.key * LoadDen) \div LoadNum + 1)

\* create(15, ...) returned a map of 21 buckets, where ceil(15 / 0.75) is 20
C15_Witness ==
    /\ last.op = "create"
    /\ last.key = 15
    /\ maps["m1"] # NULL
    /\ Deref(maps["m1"]).num_buckets = 21
    /\ CeilLoad(15) = 20


---------------------------------------------------------------------------
(* One map, the map returned by its last copy or deserialize, and the      *)
(* allocator: in every call one allocation may fail.                       *)

\* the allocation calls of one call that may fail: 0 is no failure
MaxFail == 6

Fails == 0..MaxFail

\* the (value, name) pairs the caller associates
MemArgs == { <<CallerPtr(1), Ref(<<97>>)>>, <<NullPtr, NULL>> }

\* the (enum_count, value_size, flags) the caller creates maps with
MemCreateArgs ==
    {0, 1} \X ValueSizes \X {STEM_FLAGS_NONE, STEM_FLAGS_NO_NAMES}

\* the heap and the map after the first n associate calls of the fill
RECURSIVE FilledMem(_, _, _)
FilledMem(n, value_size, flags) ==
    IF n = 0
    THEN LET r == stdem_create_ex_mem(Enter(NoHeap, 0), 1, value_size, flags)
         IN  [h |-> r.h, map |-> r.map]
    ELSE LET f == FilledMem(n - 1, value_size, flags)
             r == stdem_associate_ex_mem(f.h, f.map, FillKey(n),
                                         CallerPtr(1 + (n % NumPtrs)),
                                         IF n % 3 = 0 THEN NULL
                                         ELSE Ref(<<96 + n>>))
         IN  [h |-> r.h, map |-> r.map]

InitMem ==
    /\ \/ maps = NoMaps /\ heap = NoHeap
       \/ LET f == FilledMem(PreFill, 1, STEM_FLAGS_NONE)
          IN  maps = [NoMaps EXCEPT !["m1"] = f.map] /\ heap = Leave(f.h)
    /\ stream = <<>>
    /\ caller = NoCaller
    /\ threads = NoThreads
    /\ last = Call("none", "", "", 0, STEM_SUCCESS, FALSE)

\* the allocation that was to fail was reached
Reached(h) == h.fail = 0 \/ h.site # ""

CreateMem(s, enum_count, value_size, flags, fail) ==
    /\ Idle
    /\ maps[s] = NULL
    /\ \E r \in {stdem_create_ex_mem(Enter(heap, fail), enum_count, value_size,
                                    flags)} :
           /\ Reached(r.h)
           /\ maps' = [maps EXCEPT ![s] = r.map]
           /\ heap' = Leave(r.h)
           /\ last' = Call("create", s, "", enum_count, r.error, FALSE)
    /\ UNCHANGED <<stream, caller, threads>>

DestroyMem(s) ==
    /\ ~last.crashed
    /\ s = "out" \/ Idle
    /\ maps[s] # NULL
    /\ maps' = [maps EXCEPT ![s] = NULL]
    /\ heap' = Leave(stdem_destroy_mem(Enter(heap, 0), maps[s]))
    /\ last' = Call("destroy", s, "", 0, STEM_SUCCESS, FALSE)
    /\ UNCHANGED <<stream, caller, threads>>

AssociateMem(s, enum_value, value, name, fail) ==
    /\ Idle
    /\ maps[s] # NULL
    /\ \E r \in {stdem_associate_ex_mem(Enter(heap, fail), maps[s], enum_value,
                                       value, name)} :
           /\ Reached(r.h)
           /\ maps' = [maps EXCEPT ![s] = r.map]
           /\ heap' = Leave(r.h)
           /\ last' = Call("associate", s, "", enum_value, r.ret, FALSE)
    /\ UNCHANGED <<stream, caller, threads>>

ClearMem(s) ==
    /\ Idle
    /\ maps[s] # NULL
    /\ \E r \in {stdem_clear_mem(Enter(heap, 0), maps[s])} :
           /\ maps' = [maps EXCEPT ![s] = r.map]
           /\ heap' = Leave(r.h)
           /\ last' = Call("clear", s, "", 0, r.ret, FALSE)
    /\ UNCHANGED <<stream, caller, threads>>

CopyMem(s, fail) ==
    /\ Idle
    /\ maps[s] # NULL
    /\ \E r \in {stdem_copy_mem(Enter(heap, fail), maps[s])} :
           /\ Reached(r.h)
           /\ maps' = [maps EXCEPT !["out"] = r.map]
           /\ heap' = Leave(r.h)
           /\ last' = Call("copy", s, "", 0, r.error, FALSE)
    /\ UNCHANGED <<stream, caller, threads>>

\* the bytes taken off the end of a stream before it is read
MaxCut == 4

\* the stream the caller hands to deserialize: what serialize wrote for the
\* map, or that with its first entry written once more at the end and
\* counted in the header, without its last cut bytes
StreamOf(map, repeat, cut) ==
    LET e == Walk(map.buckets, 1)
        w == WriteEntries(e, 1, map.value_size, "crash")
        all == IF repeat
               THEN HeaderBytes([map EXCEPT !.count = @ + 1]) \o w.bytes
                      \o EntryBytes(e[1], map.value_size)
               ELSE HeaderBytes(map) \o w.bytes
    IN  SubSeq(all, 1, Len(all) - cut)

\* the stream is written from the map in s, a map of a few entries that
\* holds no value whose write is undefined, and read in the same step
DeserializeMem(s, repeat, cut, fail) ==
    /\ Idle
    /\ maps[s] # NULL
    /\ Live(s) <= MaxLive
    /\ LET map == Deref(maps[s])
           e == Walk(map.buckets, 1)
       IN  /\ repeat => Len(e) > 0
           /\ \A i \in 1..Len(e) : ~WriteIsUndefined(e[i], map.value_size)
           /\ \E r \in {stdem_deserialize_mem(Enter(heap, fail),
                                             StreamOf(map, repeat, cut))} :
                  /\ Reached(r.h)
                  /\ maps' = [maps EXCEPT !["out"] = r.map]
                  /\ heap' = Leave(r.h)
                  /\ last' = Call(IF repeat THEN "deserialize_repeat"
                                  ELSE IF cut > 0 THEN "deserialize_cut"
                                  ELSE "deserialize",
                                  "", s, 0, r.error, FALSE)
    /\ UNCHANGED <<stream, caller, threads>>

NextMem ==
    \/ \E a \in MemCreateArgs, fail \in Fails :
         CreateMem("m1", a[1], a[2], a[3], fail)
    \/ \E s \in {"m1", "out"} : DestroyMem(s)
    \/ \E k \in Keys, a \in MemArgs, fail \in Fails :
         AssociateMem("m1", k, a[1], a[2], fail)
    \/ ClearMem("m1")
    \/ \E fail \in Fails : CopyMem("m1", fail)
    \/ \E cut \in 0..MaxCut, fail \in Fails :
         DeserializeMem("m1", FALSE, cut, fail)
    \/ \E fail \in Fails : DeserializeMem("m1", TRUE, 0, fail)

SpecMem == InitMem /\ [][NextMem]_vars

\* the addresses a map holds: its struct, its bucket array, and each
\* entry's struct, copied value and name
EntryAddrs(map, e) ==
    {e.at}
      \cup (IF map.value_size > 0 /\ e.value.kind = "heap" THEN {e.value.addr}
            ELSE {})
      \cup (IF e.name # NULL THEN {e.name_at} ELSE {})

AddrsOf(mp) ==
    IF mp = NULL THEN {}
    ELSE LET map == Deref(mp)
             e == Walk(map.buckets, 1)
         IN  {map.at, map.buckets_at}
               \cup UNION {EntryAddrs(map, e[i]) : i \in 1..Len(e)}

\* every live address belongs to one map, and no free was invalid
HeapSound ==
    /\ ~heap.bad
    /\ heap.live = UNION {AddrsOf(maps[s]) : s \in Slots}



---------------------------------------------------------------------------
(* C16, C17: an associate whose allocation fails *)

\* the last call was an associate on s in which the allocation at one of
\* the sites failed
FailedIn(sites) == last.op = "associate" /\ heap.site \in sites

\* the step is an associate on s that failed at one of the sites
FailsAt(s, sites) ==
    /\ last'.op = "associate"
    /\ last'.a = s
    /\ heap'.site \in sites

\* the map in s, and what is allocated, are what they were before the step
LeftAsBefore(s) ==
    /\ maps'[s] = maps[s]
    /\ heap'.live = heap.live
    /\ ~heap'.bad

\* C16: when an associate has to grow the table and the allocation of the
\* doubled bucket array fails, the call returns OutOfMemory and the map is
\* in the state it had before the call: same entries, same bucket array,
\* same count, nothing allocated and nothing freed.
C16_GrowthFailureAtomic ==
    [][\A s \in {"m1"} :
         FailsAt(s, {"buckets"})
           => /\ last'.ret = STEM_ERROR_OUT_OF_MEMORY
              /\ LeftAsBefore(s)]_vars

\* an associate on a map above the load factor has just failed to allocate
\* the doubled array
C16_Witness ==
    /\ FailedIn({"buckets"})
    /\ last.ret = STEM_ERROR_OUT_OF_MEMORY
    /\ maps["m1"] # NULL
    /\ NeedsResize(Deref(maps["m1"]))
    /\ Deref(maps["m1"]).count > 0

\* C17: when the allocation of the new entry, of its value copy or of its
\* name copy fails, the associate returns OutOfMemory and the map is
\* unmodified, its bucket count and chain order included, with nothing left
\* allocated.
C17_EntryFailureAtomic ==
    [][\A s \in {"m1"} :
         FailsAt(s, {"entry", "value", "name"})
           => /\ last'.ret = STEM_ERROR_OUT_OF_MEMORY
              /\ maps'[s] # NULL
              /\ Deref(maps'[s]).num_buckets = Deref(maps[s]).num_buckets
              /\ Deref(maps'[s]).buckets = Deref(maps[s]).buckets
              /\ Deref(maps'[s]).count = Deref(maps[s]).count
              /\ Cardinality(heap'.live) = Cardinality(heap.live)
              /\ ~heap'.bad]_vars


---------------------------------------------------------------------------
(* Two maps built by the caller, and their merges under allocation failure *)

\* what the caller associates for each key of a built map: nothing, or one
\* of the (value, name) pairs
Contents == [Keys -> {<<>>} \cup {<<a>> : a \in MemArgs}]

RECURSIVE Built(_, _, _)
Built(r, c, keys) ==
    IF keys = {} \/ r.map = NULL THEN r
    ELSE LET k == CHOOSE x \in keys : \A y \in keys : x >= y
             a == c[k]
         IN  IF a = <<>> THEN Built(r, c, keys \ {k})
             ELSE LET n == stdem_associate_ex_mem(r.h, r.map, k, a[1][1],
                                                  a[1][2])
                  IN  Built([h |-> n.h, map |-> n.map], c, keys \ {k})

\* the heap and the map after create and the associates of c
BuiltMap(h, value_size, flags, c) ==
    LET r == stdem_create_ex_mem(h, 1, value_size, flags)
    IN  Built([h |-> r.h, map |-> r.map], c, Keys)

MergeMemFlags == {STEM_FLAGS_NONE, STEM_FLAGS_NO_NAMES}

\* both maps have the value size of the merge: a merge of maps of different
\* value sizes is rejected before anything is allocated
InitMergeMem ==
    /\ \E vs \in ValueSizes, f1 \in MergeMemFlags, f2 \in MergeMemFlags,
          c1 \in Contents, c2 \in Contents :
         LET a == BuiltMap(Enter(NoHeap, 0), vs, f1, c1)
             b == BuiltMap(a.h, vs, f2, c2)
         IN  /\ maps = [NoMaps EXCEPT !["m1"] = a.map, !["m2"] = b.map]
             /\ heap = Leave(b.h)
    /\ stream = <<>>
    /\ caller = NoCaller
    /\ threads = NoThreads
    /\ last = Call("none", "", "", 0, STEM_SUCCESS, FALSE)

\* the merge is the caller's first call on the two maps
MergeMem(a, b, overwrite, ub, fail) ==
    /\ Idle
    /\ last.op = "none"
    /\ \E r \in {stdem_merge_mem(Enter(heap, fail), maps[a], maps[b], overwrite,
                                ub)} :
           /\ Reached(r.h)
           /\ maps' = [maps EXCEPT !["out"] = r.map]
           /\ heap' = Leave(r.h)
           /\ last' = Call(IF overwrite THEN "merge_overwrite" ELSE "merge",
                           a, b, 0, r.error, r.crashed)
    /\ UNCHANGED <<stream, caller, threads>>

NextMergeMem ==
    \/ \E o \in BOOLEAN, ub \in UBOutcomes, fail \in Fails :
         MergeMem("m1", "m2", o, ub, fail)
    \/ DestroyMem("out")

SpecMergeMem == InitMergeMem /\ [][NextMergeMem]_vars

\* C18: when, during an overwriting merge, the duplication of map2's name
\* for an existing entry fails, the merge returns OutOfMemory and no map,
\* the two inputs are unchanged, and every buffer of the partial result has
\* been released exactly once: what is allocated is what was allocated
\* before the call, and no address was freed twice.
C18_MergeOverwriteCleanup ==
    [][(last'.op = "merge_overwrite" /\ heap'.site = "overwrite_name")
         => /\ last'.ret = STEM_ERROR_OUT_OF_MEMORY
            /\ maps'["out"] = NULL
            /\ maps'["m1"] = maps["m1"]
            /\ maps'["m2"] = maps["m2"]
            /\ heap'.live = heap.live
            /\ ~heap'.bad]_vars

\* an overwriting merge has just failed to duplicate a name of map2 for a
\* key that map1 holds with a name of its own
C18_Witness ==
    /\ last.op = "merge_overwrite"
    /\ heap.site = "overwrite_name"
    /\ last.ret = STEM_ERROR_OUT_OF_MEMORY
    /\ maps["out"] = NULL
    /\ \E k \in Keys :
         /\ stem_find_entry(Deref(maps["m1"]), k) # NULL
         /\ Deref(stem_find_entry(Deref(maps["m1"]), k)).name # NULL
         /\ stem_find_entry(Deref(maps["m2"]), k) # NULL
         /\ Deref(stem_find_entry(Deref(maps["m2"]), k)).name # NULL


---------------------------------------------------------------------------
(* C19: a copy or a deserialize that fails *)

RebuildOps == {"copy", "deserialize", "deserialize_cut", "deserialize_repeat"}

\* C19: when a copy or a deserialize fails, whether an allocation fails, a
\* read comes short or the stream repeats a key, no map is returned, the
\* error of the failing step is reported (OutOfMemory for an allocation,
\* InvalidArgument for a short read, AlreadyExists for a repeated key), the
\* source map is unchanged, and every buffer the call allocated has been
\* released exactly once: what is allocated is what was allocated before
\* the call, and no address was freed twice.
C19_RebuildFailureCleanup ==
    [][last'.op \in RebuildOps
         => /\ heap'.site # "" => last'.ret = STEM_ERROR_OUT_OF_MEMORY
            /\ (heap'.site = "" /\ last'.op = "deserialize_repeat")
                 => last'.ret = STEM_ERROR_ALREADY_EXISTS
            /\ (heap'.site = "" /\ last'.op = "deserialize_cut")
                 => last'.ret = STEM_ERROR_INVALID_ARG
            /\ last'.ret # STEM_SUCCESS
                 => /\ maps'["out"] = NULL
                    /\ maps'["m1"] = maps["m1"]
                    /\ heap'.live = heap.live
                    /\ ~heap'.bad]_vars

\* a stream of two named entries with copied values, the first written
\* again at its end, has just been refused for the repeated key
C19_Witness ==
    /\ last.op = "deserialize_repeat"
    /\ last.ret = STEM_ERROR_ALREADY_EXISTS
    /\ maps["out"] = NULL
    /\ maps["m1"] # NULL
    /\ Deref(maps["m1"]).count = 2
    /\ Deref(maps["m1"]).value_size > 0
    /\ \E k \in Keys :
         /\ stem_find_entry(Deref(maps["m1"]), k) # NULL
         /\ Deref(stem_find_entry(Deref(maps["m1"]), k)).name # NULL
         /\ Deref(stem_find_entry(Deref(maps["m1"]), k)).value.kind = "heap"
    /\ heap.live = AddrsOf(maps["m1"])


---------------------------------------------------------------------------
(* A map and its copy, both in use *)

\* the caller's map holds key 1 when it is copied
ShareContents == {c \in Contents : c[1] # <<>> /\ c[-15] = <<>>}

InitShare ==
    /\ \/ \E vs \in ValueSizes, f \in MergeMemFlags, c \in ShareContents :
            LET a == BuiltMap(Enter(NoHeap, 0), vs, f, c)
            IN  /\ maps = [NoMaps EXCEPT !["m1"] = a.map]
                /\ heap = Leave(a.h)
       \/ LET f == FilledMem(PreFill, 1, STEM_FLAGS_NONE)
          IN  maps = [NoMaps EXCEPT !["m1"] = f.map] /\ heap = Leave(f.h)
    /\ stream = <<>>
    /\ caller = NoCaller
    /\ threads = NoThreads
    /\ last = Call("none", "", "", 0, STEM_SUCCESS, FALSE)

\* out = stdem_copy(m1), the caller's first call
CopyShare ==
    /\ last.op = "none"
    /\ maps["m1"] # NULL
    /\ maps["out"] = NULL
    /\ \E r \in {stdem_copy_mem(Enter(heap, 0), maps["m1"])} :
           /\ maps' = [maps EXCEPT !["out"] = r.map]
           /\ heap' = Leave(r.h)
           /\ last' = Call("copy", "m1", "", 0, r.error, FALSE)
    /\ UNCHANGED <<stream, caller, threads>>

\* a cleared map is not filled again
AssociateShare(s, enum_value, value, name) ==
    /\ last.op # "none"
    /\ maps[s] # NULL
    /\ Live(s) > 0
    /\ \E r \in {stdem_associate_ex_mem(Enter(heap, 0), maps[s], enum_value,
                                       value, name)} :
           /\ maps' = [maps EXCEPT ![s] = r.map]
           /\ heap' = Leave(r.h)
           /\ last' = Call("associate", s, "", enum_value, r.ret, FALSE)
    /\ UNCHANGED <<stream, caller, threads>>

ClearShare(s) ==
    /\ last.op # "none"
    /\ maps[s] # NULL
    /\ \E r \in {stdem_clear_mem(Enter(heap, 0), maps[s])} :
           /\ maps' = [maps EXCEPT ![s] = r.map]
           /\ heap' = Leave(r.h)
           /\ last' = Call("clear", s, "", 0, r.ret, FALSE)
    /\ UNCHANGED <<stream, caller, threads>>

DestroyShare(s) ==
    /\ last.op # "none"
    /\ maps[s] # NULL
    /\ maps' = [maps EXCEPT ![s] = NULL]
    /\ heap' = Leave(stdem_destroy_mem(Enter(heap, 0), maps[s]))
    /\ last' = Call("destroy", s, "", 0, STEM_SUCCESS, FALSE)
    /\ UNCHANGED <<stream, caller, threads>>

NextShare ==
    \/ CopyShare
    \/ \E s \in {"m1", "out"}, k \in Keys, a \in MemArgs :
         AssociateShare(s, k, a[1], a[2])
    \/ \E s \in {"m1", "out"} : ClearShare(s)
    \/ \E s \in {"m1", "out"} : DestroyShare(s)

SpecShare == InitShare /\ [][NextShare]_vars

Other(s) == IF s = "m1" THEN "out" ELSE "m1"

\* what a map holds for a key: the value as the caller reads it (the
\* reference, or the bytes of the copy) and the name
Held(map, e) ==
    [value |-> IF map.value_size > 0 /\ e.value.kind = "heap"
               THEN <<"bytes", e.value.bytes>>
               ELSE <<"reference", e.value.kind, e.value.addr>>,
     name |-> e.name]

\* the copy holds, for every key of the source and no other, the same
\* reference or equal bytes, and an equal name
CopyHoldsSame(m, c) ==
    /\ c.count = m.count
    /\ c.value_size = m.value_size
    /\ \A k \in LookupKeys :
         LET a == stem_find_entry(m, k)
             b == stem_find_entry(c, k)
         IN  /\ (a = NULL) = (b = NULL)
             /\ a # NULL => Held(m, Deref(a)) = Held(c, Deref(b))

\* C20: after M' = copy(M), an associate, clear or destroy on one of the
\* two maps leaves the other map as it was, count, keys, values and names,
\* with every buffer of it still allocated; the two maps never share a
\* buffer (entry, copied value, name, bucket array), and right after the
\* copy corresponding entries hold the same caller reference in reference
\* mode and equal bytes in buffers of their own in copy mode.
C20_CopyIndependence ==
    [][/\ (maps'["m1"] # NULL /\ maps'["out"] # NULL)
            => AddrsOf(maps'["m1"]) \cap AddrsOf(maps'["out"]) = {}
       /\ (last'.op = "copy" /\ last'.ret = STEM_SUCCESS)
            => /\ maps'["out"] # NULL
               /\ maps'["m1"] = maps["m1"]
               /\ CopyHoldsSame(Deref(maps'["m1"]), Deref(maps'["out"]))
       /\ \A s \in {"m1", "out"} :
            (/\ last'.op \in {"associate", "clear", "destroy"}
             /\ last'.a = s
             /\ maps[Other(s)] # NULL)
              => /\ maps'[Other(s)] = maps[Other(s)]
                 /\ AddrsOf(maps[Other(s)]) \subseteq heap'.live
                 /\ ~heap'.bad]_vars

\* the source of a copy in copy mode has been cleared while the copy still
\* holds a named entry with a value buffer of its own
C20_Witness ==
    /\ last.op = "clear"
    /\ last.a = "m1"
    /\ last.ret = STEM_SUCCESS
    /\ maps["m1"] # NULL
    /\ Deref(maps["m1"]).count = 0
    /\ maps["out"] # NULL
    /\ \E k \in Keys :
         LET e == stem_find_entry(Deref(maps["out"]), k)
         IN  /\ e # NULL
             /\ Deref(e).value.kind = "heap"
             /\ Deref(e).name # NULL
             /\ {Deref(e).value.addr, Deref(e).name_at} \subseteq heap.live

---------------------------------------------------------------------------
(* One map and its copy or merge, the allocator, and a caller that keeps   *)
(* the value pointer of a lookup and writes to its own buffers between its *)
(* calls                                                                   *)

\* the byte a caller writes into one of its buffers
WrittenByte == 7

\* the caller's pointer a, seen with the bytes now behind it
Buffer(a) ==
    IF a = 0 THEN NullPtr
    ELSE [kind |-> "caller", addr |-> a, bytes |-> caller.buf[a]]

\* the value argument of an associate: the library reads behind the pointer
\* only when the map has a value size
ValueArg(mp, a) ==
    IF mp # NULL /\ Deref(mp).value_size > 0 THEN Buffer(a) ELSE CallerPtr(a)

\* the caller's map holds key 1 at first
InitCaller ==
    /\ \/ \E vs \in ValueSizes, c \in ShareContents :
            LET a == BuiltMap(Enter(NoHeap, 0), vs, STEM_FLAGS_NONE, c)
            IN  /\ maps = [NoMaps EXCEPT !["m1"] = a.map]
                /\ heap = Leave(a.h)
       \/ LET f == FilledMem(PreFill, 1, STEM_FLAGS_NONE)
          IN  maps = [NoMaps EXCEPT !["m1"] = f.map] /\ heap = Leave(f.h)
    /\ stream = <<>>
    /\ caller = NoCaller
    /\ threads = NoThreads
    /\ last = Call("none", "", "", 0, STEM_SUCCESS, FALSE)

\* p = stdem_get_value_ex(m1, k, &error); the caller keeps a pointer that is
\* not NULL
GetValueCaller(enum_value) ==
    /\ ~last.crashed
    /\ maps["m1"] # NULL
    /\ \E r \in {stdem_get_value_ex(maps["m1"], enum_value)} :
           /\ caller' = [caller EXCEPT !.held =
                           IF r.value.kind = "null" THEN NULL
                           ELSE Ref([key |-> enum_value, ptr |-> r.value])]
           /\ last' = Call("get_value", "m1", "", enum_value, r.error, FALSE)
    /\ UNCHANGED <<maps, stream, heap, threads>>

\* the caller overwrites buffer a
WriteCaller(a) ==
    /\ ~last.crashed
    /\ caller.buf[a] # <<WrittenByte>>
    /\ caller' = [caller EXCEPT !.buf[a] = <<WrittenByte>>]
    /\ last' = Call("write", "", "", a, STEM_SUCCESS, FALSE)
    /\ UNCHANGED <<maps, stream, heap, threads>>

\* a cleared map is not filled again
AssociateCaller(enum_value, a, fail) ==
    /\ ~last.crashed
    /\ maps["m1"] # NULL
    /\ Live("m1") > 0
    /\ \E r \in {stdem_associate_ex_mem(Enter(heap, fail), maps["m1"],
                                       enum_value, ValueArg(maps["m1"], a),
                                       IF a = 0 THEN NULL ELSE Ref(<<97>>))} :
           /\ Reached(r.h)
           /\ maps' = [maps EXCEPT !["m1"] = r.map]
           /\ heap' = Leave(r.h)
           /\ last' = Call("associate", "m1", "", enum_value, r.ret, FALSE)
    /\ UNCHANGED <<stream, caller, threads>>

ClearCaller ==
    /\ ~last.crashed
    /\ maps["m1"] # NULL
    /\ \E r \in {stdem_clear_mem(Enter(heap, 0), maps["m1"])} :
           /\ maps' = [maps EXCEPT !["m1"] = r.map]
           /\ heap' = Leave(r.h)
           /\ last' = Call("clear", "m1", "", 0, r.ret, FALSE)
    /\ UNCHANGED <<stream, caller, threads>>

\* out = stdem_copy(m1)
CopyCaller ==
    /\ ~last.crashed
    /\ maps["m1"] # NULL
    /\ maps["out"] = NULL
    /\ \E r \in {stdem_copy_mem(Enter(heap, 0), maps["m1"])} :
           /\ maps' = [maps EXCEPT !["out"] = r.map]
           /\ heap' = Leave(r.h)
           /\ last' = Call("copy", "m1", "", 0, r.error, FALSE)
    /\ UNCHANGED <<stream, caller, threads>>

\* out = stdem_merge(m1, m1, overwrite)
MergeCaller(overwrite, ub) ==
    /\ ~last.crashed
    /\ maps["m1"] # NULL
    /\ maps["out"] = NULL
    /\ \E r \in {stdem_merge_mem(Enter(heap, 0), maps["m1"], maps["m1"],
                                overwrite, ub)} :
           /\ maps' = [maps EXCEPT !["out"] = r.map]
           /\ heap' = Leave(r.h)
           /\ last' = Call(IF overwrite THEN "merge_overwrite" ELSE "merge",
                           "m1", "m1", 0, r.error, r.crashed)
    /\ UNCHANGED <<stream, caller, threads>>

\* stdem_serialize(m1, file): the bytes go to the file, the map and the
\* heap are only read
SerializeCaller(ub) ==
    /\ ~last.crashed
    /\ maps["m1"] # NULL
    /\ last.op # "serialize"
    /\ \E r \in {stdem_serialize(maps["m1"], ub)} :
           last' = Call("serialize", "m1", "", 0, r.ret, r.crashed)
    /\ UNCHANGED <<maps, stream, heap, caller, threads>>

\* the caller's last call
DestroyCaller ==
    /\ ~last.crashed
    /\ maps["m1"] # NULL
    /\ maps' = [maps EXCEPT !["m1"] = NULL]
    /\ heap' = Leave(stdem_destroy_mem(Enter(heap, 0), maps["m1"]))
    /\ last' = Call("destroy", "m1", "", 0, STEM_SUCCESS, FALSE)
    /\ UNCHANGED <<stream, caller, threads>>

NextCaller ==
    \/ \E k \in Keys : GetValueCaller(k)
    \/ WriteCaller(1)
    \/ \E k \in Keys, a \in {0, 1} : AssociateCaller(k, a, 0)
    \/ ClearCaller
    \/ CopyCaller
    \/ \E o \in BOOLEAN, ub \in UBOutcomes : MergeCaller(o, ub)
    \/ \E ub \in UBOutcomes : SerializeCaller(ub)
    \/ DestroyCaller

SpecCaller == InitCaller /\ [][NextCaller]_vars

\* the storage behind a kept pointer is still allocated: a caller address
\* is the caller's own, a value buffer of the map must not have been freed
StorageLive(h, p) == p.ptr.kind = "heap" => p.ptr.addr \in h.live

\* the map still holds, for the pointer's key, the very pointer the caller
\* keeps, bytes included
HoldsValue(mp, p) ==
    /\ mp # NULL
    /\ stdem_get_value_ex(mp, p.key) = [value |-> p.ptr, error |-> STEM_SUCCESS]

\* the call of the step was made on m1
CalledOnM1(ops) == last'.op \in ops /\ last'.a = "m1"

---------------------------------------------------------------------------
\* stdem_exists (stdem.h): the value pointer of the lookup is not NULL
stdem_exists(mp, enum_value) ==
    stdem_get_value_ex(mp, enum_value).value # NullPtr

\* C22: stdem_exists(map, k) is true exactly when k is a live key of the
\* map, whatever value associate accepted for k (a NULL value included),
\* and false otherwise.
C22_ExistsIffLive ==
    \A s \in {"m1", "m2"}, k \in LookupKeys :
       stdem_exists(maps[s], k)
         = (maps[s] # NULL /\ k \in KeysOf(Deref(maps[s])))

---------------------------------------------------------------------------
\* the value get_value returns for the key of the associate that made the
\* step
StoredBy(s, enum_value) == stdem_get_value_ex(maps'[s], enum_value).value

---------------------------------------------------------------------------
\* what the caller reads through the pointer get_value returns for a key:
\* the bytes of the map's buffer, or the bytes now in its own buffer when
\* the pointer is its own
ReadThrough(c, mp, enum_value) ==
    LET r == stdem_get_value_ex(mp, enum_value)
    IN  IF r.error # STEM_SUCCESS \/ r.value.kind = "null" THEN <<"none">>
        ELSE IF r.value.kind = "caller" THEN <<"bytes", c.buf[r.value.addr]>>
        ELSE <<"bytes", r.value.bytes>>

---------------------------------------------------------------------------
\* the static of stdem_get_last_error: initialized to STEM_SUCCESS, and no
\* statement of the library assigns it
last_error == STEM_SUCCESS

stdem_get_last_error == last_error

\* C25: stdem_get_last_error returns the error code of the most recent
\* failing operation: right after a call that reported the error e, it
\* returns e.
C25_LastError ==
    (~last.crashed /\ last.ret # STEM_SUCCESS)
      => stdem_get_last_error = last.ret

---------------------------------------------------------------------------
\* what the read-only calls return for the map mp when it is NULL, and what
\* get_value returns for an absent key of a map
NullLookups(mp) ==
    /\ mp = NULL
         => /\ stdem_count(mp) = 0
            /\ stdem_value_size(mp) = 0
            /\ stdem_foreach(mp)
                 = [visits |-> <<>>, ret |-> STEM_ERROR_INVALID_ARG]
            /\ \A k \in Keys :
                 /\ stdem_get_value_ex(mp, k)
                      = [value |-> NullPtr, error |-> STEM_ERROR_INVALID_ARG]
                 /\ stdem_get_name_ex(mp, k)
                      = [name |-> NULL, error |-> STEM_ERROR_INVALID_ARG]
            /\ \A n \in NameArgs \ {NULL} :
                 stdem_find_by_name(mp, n).error = STEM_ERROR_INVALID_ARG
    /\ mp # NULL
         => \E held \in {KeysOf(Deref(mp))} :
              \A k \in LookupKeys \ held :
                 stdem_get_value_ex(mp, k)
                   = [value |-> NullPtr, error |-> STEM_ERROR_NOT_FOUND]

\* C26: given a NULL map, associate, get_value, get_name, find_by_name,
\* for_each, clear, copy, merge and serialize report InvalidArgument, count
\* and value_size return 0 and destroy does nothing; get_value on a map
\* that lacks the key reports NotFound; none of the calls on a NULL map
\* changes a map, makes one or writes a byte.
C26_NullMap ==
    [][/\ \A s \in {"m1", "out"} :
            /\ NullLookups(maps'[s])
            /\ last.op = "none" => NullLookups(maps[s])
       /\ stdem_destroy_mem(heap, NULL) = heap
       /\ \A o \in BOOLEAN, ub \in UBOutcomes :
            \A r \in {stdem_merge(maps'["m1"], NULL, o, ub),
                       stdem_merge(NULL, maps'["m1"], o, ub)} :
               r.map = NULL /\ r.error = STEM_ERROR_INVALID_ARG /\ ~r.crashed
       /\ (/\ last'.op \in {"associate", "clear", "copy", "merge",
                            "merge_overwrite", "serialize"}
           /\ maps[last'.a] = NULL)
            => /\ last'.ret = STEM_ERROR_INVALID_ARG
               /\ ~last'.crashed
               /\ maps' = maps
               /\ stream' = <<>>]_vars

\* an associate was called on a NULL map and reported InvalidArgument
C26_Witness ==
    /\ last.op = "associate"
    /\ maps["m1"] = NULL
    /\ last.ret = STEM_ERROR_INVALID_ARG

---------------------------------------------------------------------------
(* A caller that hands deserialize streams that serialize did not write:   *)
(* the stream of a small map with a wrong magic, a wrong version, a record *)
(* less than its header counts, or without its last bytes, and with or     *)
(* without a record that repeats the key of the first one                  *)

\* the entries of the maps whose streams are damaged
MaxStreamLive == 2

Damages == {"none", "magic", "version", "missing", "cut"}

\* what serialize writes for the map, then the first record once more when
\* repeat, under a header that counts the records written and one more when
\* damage is "missing"
StreamWith(map, repeat, damage) ==
    LET e == Walk(map.buckets, 1)
        w == WriteEntries(e, 1, map.value_size, "crash")
        n == map.count + (IF repeat THEN 1 ELSE 0)
                       + (IF damage = "missing" THEN 1 ELSE 0)
    IN  HeaderBytes([map EXCEPT !.count = n]) \o w.bytes
          \o (IF repeat THEN EntryBytes(e[1], map.value_size) ELSE <<>>)

\* the stream with the first byte of its magic or of its version changed,
\* or without its last cut bytes
Damaged(bytes, damage, cut) ==
    IF damage = "magic" THEN [bytes EXCEPT ![1] = (@ + 1) % Byte]
    ELSE IF damage = "version"
    THEN [bytes EXCEPT ![SizeofInt + 1] = (@ + 1) % Byte]
    ELSE IF damage = "cut" THEN SubSeq(bytes, 1, Len(bytes) - cut)
    ELSE bytes

InitStream ==
    /\ \E n \in 0..MaxStreamLive, vs \in ValueSizes, f \in MergeMemFlags :
         maps = [NoMaps EXCEPT !["m1"] = Filled(n, vs, f)]
    /\ heap = NoHeap
    /\ stream = <<>>
    /\ caller = NoCaller
    /\ threads = NoThreads
    /\ last = Call("none", "", "", 0, STEM_SUCCESS, FALSE)

\* the caller prepares the stream; a cut leaves at least one byte and takes
\* at least one
PrepareStream(repeat, damage, cut) ==
    /\ Idle
    /\ maps["m1"] # NULL
    /\ last.op \in {"none", "destroy"}
    /\ repeat => Live("m1") > 0
    /\ \E all \in {StreamWith(Deref(maps["m1"]), repeat, damage)} :
         /\ (damage = "cut") = (cut > 0)
         /\ cut < Len(all)
         /\ stream' = Damaged(all, damage, cut)
    /\ last' = Call("stream_" \o damage, "m1",
                    IF repeat THEN "repeat" ELSE "", cut, STEM_SUCCESS, FALSE)
    /\ UNCHANGED <<maps, heap, caller, threads>>

\* the longest stream of the maps above, in bytes
MaxStream == 72

NextStream ==
    \/ \E repeat \in BOOLEAN, damage \in Damages, cut \in 0..MaxStream :
         PrepareStream(repeat, damage, cut)
    \/ Deserialize
    \/ Destroy("out")

SpecStream == InitStream /\ [][NextStream]_vars

\* the step is a deserialize of a stream prepared with one of the damages
Reads(damages) ==
    /\ last'.op = "deserialize"
    /\ last.op \in {"stream_" \o d : d \in damages}

\* C27 as stated: deserialize returns InvalidArgument and no map when the
\* magic is not 0x454E554D, the version is not 1, or the stream ends
\* before the header or before all the records its header counts.
C27_Original ==
    [][Reads({"magic", "version", "missing", "cut"})
         => /\ maps'["out"] = NULL
            /\ last'.ret = STEM_ERROR_INVALID_ARG]_vars

\* C27: deserialize returns no map when the magic is not 0x454E554D, the
\* version is not 1, or the stream ends before the header or before all
\* the records its header counts. It reports InvalidArgument, unless a
\* complete record before the end of the stream repeats a key: the
\* associate of that record ends the read with AlreadyExists before the
\* end of the stream is met.
C27_InputValidation ==
    [][Reads({"magic", "version", "missing", "cut"})
         => /\ maps'["out"] = NULL
            /\ last'.ret
                 = IF last.op = "stream_missing" /\ last.b = "repeat"
                   THEN STEM_ERROR_ALREADY_EXISTS
                   ELSE STEM_ERROR_INVALID_ARG]_vars

\* the stream of a map of two entries was read to its end, which came
\* before the last record its header counts was complete: no map was
\* returned
C27_Witness ==
    /\ last.op = "deserialize"
    /\ last.ret = STEM_ERROR_INVALID_ARG
    /\ maps["out"] = NULL
    /\ maps["m1"] # NULL
    /\ Deref(maps["m1"]).count = 2
    /\ Deref(maps["m1"]).value_size = 1
    /\ stream = <<>>

---------------------------------------------------------------------------
(* Two threads of the caller on one map. The library's own lock and unlock *)
(* are empty; the caller wraps every call in its mutex. An associate is    *)
(* two steps, its lookup and what it does after a lookup that found        *)
(* nothing, so that a second thread can run between them when nothing      *)
(* keeps it out.                                                           *)

\* stdem_associate_ex after its lookup has found no entry: the growth, the
\* new entry and its link
InsertAbsent(map, enum_value, value, name) ==
    LET grown == IF NeedsResize(map)
                 THEN stem_resize_map(map, map.num_buckets * 2)
                 ELSE [map |-> map, ret |-> STEM_SUCCESS]
    IN  IF grown.ret # STEM_SUCCESS
        THEN [map |-> map, ret |-> grown.ret]
        ELSE [map |-> LinkEntry(grown.map,
                                stem_create_entry(grown.map, enum_value,
                                                  value, name)),
              ret |-> STEM_SUCCESS]

\* a mutex that lets every thread in
CanLock_Always(mutex) == TRUE

\* pthread_mutex_lock returns when no thread holds the mutex
CanLock(mutex) == mutex = 0

ThreadOps == {"associate", "clear", "get_value"}

OtherThread(t) == CHOOSE u \in Threads : u # t

InitThreads ==
    /\ \E n \in {0, PreFill}, vs \in ValueSizes :
         maps = [NoMaps EXCEPT !["m1"] = Filled(n, vs, STEM_FLAGS_NONE)]
    /\ heap = NoHeap
    /\ stream = <<>>
    /\ caller = NoCaller
    /\ threads = NoThreads
    /\ last = Call("none", "", "", 0, STEM_SUCCESS, FALSE)

\* thread t makes a call; it is paired with the other thread when both
\* are about to associate the same key, absent from the map, and neither
\* has entered yet
InvokeThread(t, op, k) ==
    /\ threads.of[t].pc = "idle"
    /\ LET u == OtherThread(t)
           pair == /\ op = "associate"
                   /\ threads.of[u].pc = "waiting"
                   /\ threads.of[u].op = "associate"
                   /\ threads.of[u].key = k
                   /\ stem_find_entry(Deref(maps["m1"]), k) = NULL
       IN  threads' = [threads EXCEPT
                         !.of[t] = [pc |-> "waiting", op |-> op, key |-> k,
                                    paired |-> pair, found |-> FALSE,
                                    ret |-> STEM_SUCCESS],
                         !.of[u].paired = @ \/ pair]
    /\ UNCHANGED <<maps, stream, last, heap, caller>>

\* pthread_mutex_lock(&map_mutex)
LockThread(t) ==
    /\ threads.of[t].pc = "waiting"
    /\ CanLock(threads.mutex)
    /\ threads' = [threads EXCEPT !.mutex = t, !.of[t].pc = "locked"]
    /\ UNCHANGED <<maps, stream, last, heap, caller>>

\* the lookup of stdem_associate_ex
FindThread(t) ==
    /\ threads.of[t].pc = "locked"
    /\ threads.of[t].op = "associate"
    /\ threads' = [threads EXCEPT
                     !.of[t].pc = "found",
                     !.of[t].found =
                        stem_find_entry(Deref(maps["m1"]), threads.of[t].key)
                          # NULL]
    /\ UNCHANGED <<maps, stream, last, heap, caller>>

\* the rest of stdem_associate_ex
InsertThread(t) ==
    /\ threads.of[t].pc = "found"
    /\ \E r \in {IF threads.of[t].found
                 THEN [map |-> Deref(maps["m1"]),
                       ret |-> STEM_ERROR_ALREADY_EXISTS]
                 ELSE InsertAbsent(Deref(maps["m1"]), threads.of[t].key,
                                   CallerPtr(t), Ref(<<96 + t>>))} :
         /\ maps' = [maps EXCEPT !["m1"] = Ref(r.map)]
         /\ threads' = [threads EXCEPT !.of[t].pc = "returned",
                                       !.of[t].ret = r.ret]
    /\ UNCHANGED <<stream, last, heap, caller>>

\* stdem_clear or stdem_get_value_ex, from its first statement to its last
RunThread(t) ==
    /\ threads.of[t].pc = "locked"
    /\ threads.of[t].op \in {"clear", "get_value"}
    /\ \E r \in {IF threads.of[t].op = "clear" THEN stdem_clear(maps["m1"])
                 ELSE [map |-> maps["m1"],
                       ret |-> stdem_get_value_ex(maps["m1"],
                                                  threads.of[t].key).error]} :
         /\ maps' = [maps EXCEPT !["m1"] = r.map]
         /\ threads' = [threads EXCEPT !.of[t].pc = "returned",
                                       !.of[t].ret = r.ret]
    /\ UNCHANGED <<stream, last, heap, caller>>

\* pthread_mutex_unlock(&map_mutex)
UnlockThread(t) ==
    /\ threads.of[t].pc = "returned"
    /\ threads' = [threads EXCEPT !.mutex = IF @ = t THEN 0 ELSE @,
                                  !.of[t].pc = "done"]
    /\ UNCHANGED <<maps, stream, last, heap, caller>>

\* the thread is ready for its next call
ReturnThread(t) ==
    /\ threads.of[t].pc = "done"
    /\ threads' = [threads EXCEPT !.of[t] = IdleThread]
    /\ UNCHANGED <<maps, stream, last, heap, caller>>

NextThreads ==
    \/ \E t \in Threads, op \in ThreadOps, k \in Keys : InvokeThread(t, op, k)
    \/ \E t \in Threads : LockThread(t)
    \/ \E t \in Threads : FindThread(t)
    \/ \E t \in Threads : InsertThread(t)
    \/ \E t \in Threads : RunThread(t)
    \/ \E t \in Threads : UnlockThread(t)
    \/ \E t \in Threads : ReturnThread(t)

SpecThreads == InitThreads /\ [][NextThreads]_vars

---------------------------------------------------------------------------
(* The abstract map: a finite partial function from keys to what the       *)
(* caller reads for the key, the value (the bytes of a copy, or the        *)
(* reference) and the result of get_name                                   *)

AbsEmpty == [k \in {} |-> <<>>]

\* the value an abstract map of the value size keeps for the argument
AbsValue(value_size, value) ==
    IF value_size > 0 /\ value # NullPtr
    THEN <<"bytes", CallerBytes(value.addr, value_size)>>
    ELSE <<"reference", value>>

\* what get_name of an abstract map of the flags reports for a key
\* associated with the name
AbsName(flags, name) ==
    IF HasFlag(flags, STEM_FLAGS_NO_NAMES)
    THEN [name |-> NULL, error |-> STEM_ERROR_NOT_FOUND]
    ELSE [name |-> name, error |-> STEM_SUCCESS]

\* insert only when the key is absent
AbsAssociate(f, k, v, n) ==
    IF k \in DOMAIN f THEN [f |-> f, ret |-> STEM_ERROR_ALREADY_EXISTS]
    ELSE [f |-> [x \in DOMAIN f \cup {k} |-> IF x = k THEN <<v, n>> ELSE f[x]],
          ret |-> STEM_SUCCESS]

\* the abstract map a map stands for, read through its lookups
AbsOf(mp) ==
    The({[k \in {x \in LookupKeys : got[x].error = STEM_SUCCESS} |->
            <<IF got[k].value.kind = "heap"
              THEN <<"bytes", got[k].value.bytes>>
              ELSE <<"reference", got[k].value>>,
              stdem_get_name_ex(mp, k)>>]
         : got \in {[x \in LookupKeys |-> stdem_get_value_ex(mp, x)]}})

\* the map takes associate and clear calls
Writable(mp) ==
    mp # NULL /\ ~HasFlag(Deref(mp).flags, STEM_FLAGS_READONLY)

\* create, associate and clear calls on one map, and the
\* destroy that lets the caller create again
AbsArgs ==
    {<<CallerPtr(1), Ref(<<97>>)>>, <<CallerPtr(2), Ref(<<>>)>>, <<NullPtr, NULL>>}

NextAbs ==
    \/ \E a \in CreateArgs :
         /\ a[3] \in {STEM_FLAGS_NONE, STEM_FLAGS_NO_NAMES}
         /\ Create("m1", a[1], a[2], a[3])
    \/ Destroy("m1")
    \/ \E k \in Keys, a \in AbsArgs : Associate("m1", k, a[1], a[2])
    \/ Clear("m1")

SpecAbs == Init /\ [][NextAbs]_vars

\* C29: over every sequence of create, associate and clear calls on a map
\* that is not ReadOnly, the error codes returned and the results of count,
\* get_value and get_name are those of an abstract finite partial function
\* from keys to (value, name) that starts empty, inserts only when the key
\* is absent and empties on clear, whatever the bucket width, the
\* collisions and the growths of the map.
C29_AbstractMap ==
    [][\E before \in {IF Writable(maps["m1"]) THEN AbsOf(maps["m1"])
                      ELSE AbsEmpty},
          after \in {IF Writable(maps'["m1"]) THEN AbsOf(maps'["m1"])
                     ELSE AbsEmpty} :
         /\ Writable(maps'["m1"])
              => stdem_count(maps'["m1"]) = Cardinality(DOMAIN after)
         /\ (last'.op = "create" /\ Writable(maps'["m1"]))
              => after = AbsEmpty
         /\ (last'.op = "clear" /\ Writable(maps["m1"]))
              => /\ last'.ret = STEM_SUCCESS
                 /\ after = AbsEmpty
         /\ (last'.op = "associate" /\ Writable(maps["m1"]))
              => \A k \in {last'.key}, a \in AbsArgs :
                   Associate("m1", k, a[1], a[2])
                     => \E r \in {AbsAssociate(
                                    before, k,
                                    AbsValue(Deref(maps["m1"]).value_size,
                                             a[1]),
                                    AbsName(Deref(maps["m1"]).flags, a[2]))} :
                          /\ last'.ret = r.ret
                          /\ after = r.f]_vars

\* an associate of a new key has grown a map of 13 entries to 32 buckets,
\* and the lookups of the map find 14 keys
C29_Witness ==
    /\ last.op = "associate"
    /\ last.ret = STEM_SUCCESS
    /\ Writable(maps["m1"])
    /\ Deref(maps["m1"]).num_buckets = 2 * STEM_DEFAULT_BUCKETS
    /\ Cardinality(DOMAIN AbsOf(maps["m1"])) = PreFill + 2

---------------------------------------------------------------------------
\* (((k mod 2^32) * 2654435761) mod 2^32) mod n for a width n that divides
\* 2^16, where it is ((k mod n) * (2654435761 mod n)) mod n and
\* 2654435761 mod n is the low half of the multiplier mod n; for another
\* width, the index the 32-bit arithmetic gives
BucketByFormula(k, n) ==
    IF Half % n = 0 THEN ((k % n) * (HashMulLo % n)) % n
    ELSE BucketIdx(k, n) - 1

\* count is the number of linked entries, no entry is linked twice, every
\* entry lies in the bucket of its key, and the lookup of its key returns
\* it
WellFormed(map) ==
    LET e == Walk(map.buckets, 1) IN
    /\ Len(map.buckets) = map.num_buckets
    /\ map.count = Len(e)
    /\ \A i, j \in 1..Len(e) : e[i].at = e[j].at => i = j
    /\ \A b \in 1..map.num_buckets :
         \A j \in 1..Len(map.buckets[b]) :
            BucketByFormula(map.buckets[b][j].enum_value, map.num_buckets)
              = b - 1
    /\ \A i \in 1..Len(e) :
         stem_find_entry(map, e[i].enum_value) = Ref(e[i])

\* C30: in every reachable state of a map, count is the number of entries
\* linked in its chains, every entry is linked in one chain once, and an
\* entry of key k lies in bucket (((k mod 2^32) * 2654435761) mod 2^32) mod
\* num_buckets, for a negative k as well, so that the lookup by key reaches
\* every entry; also after a growth and after a call that ran out of
\* memory.
C30_Structure ==
    \A s \in Slots : maps[s] # NULL => WellFormed(Deref(maps[s]))

\* a map that has grown to 32 buckets holds 14 entries, the one of the
\* negative key -15 among them, in bucket ((2^32 - 15) * 2654435761) mod 32
\* = 1
C30_Witness ==
    /\ maps["m1"] # NULL
    /\ Deref(maps["m1"]).num_buckets = 2 * STEM_DEFAULT_BUCKETS
    /\ Deref(maps["m1"]).count = PreFill + 2
    /\ \E j \in 1..Len(Deref(maps["m1"]).buckets[2]) :
         Deref(maps["m1"]).buckets[2][j].enum_value = -15

---------------------------------------------------------------------------
(* C31 *)

\* every map has at least one bucket
C31_Positive ==
    \A s \in Slots : maps[s] # NULL => Deref(maps[s]).num_buckets > 0

\* a step that leaves a map in its slot keeps its width, or doubles it in an
\* associate call on that map
C31_Step ==
    \A s \in Slots :
      (maps[s] # NULL /\ maps'[s] # NULL) =>
         \/ Deref(maps'[s]).num_buckets = Deref(maps[s]).num_buckets
         \/ /\ Deref(maps'[s]).num_buckets = 2 * Deref(maps[s]).num_buckets
            /\ last'.op = "associate"
            /\ last'.a = s

\* C31 (bucket width monotonicity): from its creation to its destruction a
\* map has num_buckets > 0, and num_buckets never decreases: every change
\* is a doubling made inside an associate call on the map; clear, copy,
\* merge, serialize and deserialize calls leave the width of the maps they
\* are given as it was.
C31_WidthMonotonic == []C31_Positive /\ [][C31_Step]_vars

\* a map that grew from 16 to 32 buckets was cleared and kept the 32
C31_Witness ==
    /\ last.op = "clear"
    /\ last.ret = STEM_SUCCESS
    /\ maps["m1"] # NULL
    /\ Deref(maps["m1"]).count = 0
    /\ Deref(maps["m1"]).num_buckets = 2 * STEM_DEFAULT_BUCKETS

---------------------------------------------------------------------------
(* A map sized to another map: the caller creates m1 with the count of m2  *)
(* as its expected count and associates at most that many keys             *)

\* the largest expected count
MaxHint == 16

\* the keys of m1 are the multiples stride, 2 * stride, ... of one stride:
\* with 1 they are keys of m2 as well, with 16 they share a bucket of 16
Strides == {1, -1, 16}

\* the expected count m1 is created with
Hint == stdem_count(maps["m2"])

InitHint ==
    /\ \E n \in 1..MaxHint, c \in FilledConfigs :
         maps = [NoMaps EXCEPT !["m2"] = Filled(n, c[1], c[2])]
    /\ stream = <<>>
    /\ caller = NoCaller
    /\ threads = NoThreads
    /\ last = Call("none", "", "", 0, STEM_SUCCESS, FALSE)
    /\ heap = NoHeap

\* m1 = stdem_create_ex(stdem_count(m2), value size and flags of m2)
CreateHint ==
    \E n \in {Hint} :
       Create("m1", n, stdem_value_size(maps["m2"]), Deref(maps["m2"]).flags)

\* the next key of m1, while it holds fewer entries than it was created for
AssociateHint(stride) ==
    /\ maps["m1"] # NULL
    /\ Live("m1") < Hint
    /\ KeysOf(Deref(maps["m1"])) = {j * stride : j \in 1..Live("m1")}
    /\ Associate("m1", (Live("m1") + 1) * stride, CallerPtr(1), Ref(<<97>>))

NextHint ==
    \/ CreateHint
    \/ \E stride \in Strides : AssociateHint(stride)
    \/ Copy("m2")
    \/ \E o \in BOOLEAN, ub \in UBOutcomes :
         maps["m1"] # NULL /\ Merge("m2", "m1", o, ub)
    \/ Destroy("out")

SpecHint == InitHint /\ [][NextHint]_vars

\* the width of the map stdem_create_ex makes for the expected count n
CreatedWidth(n) == Deref(stdem_create_ex(n, 0, STEM_FLAGS_NONE).map).num_buckets

\* C32 (no resize within the hint): every associate call of a new key on a
\* map that was created with the expected count n >= 1 and holds fewer than
\* n entries succeeds and leaves num_buckets at its initial value; and the
\* map a copy or a merge returns has the width of a map created for the
\* count of the source, or for the sum of the counts of the two sources: the
\* replay of the entries did not grow it.
C32_NoResizeWithinHint ==
    [][/\ (last'.op = "associate" /\ last'.a = "m1") =>
            /\ last'.ret = STEM_SUCCESS
            /\ Deref(maps'["m1"]).count = Deref(maps["m1"]).count + 1
            /\ Deref(maps'["m1"]).count <= Hint
            /\ Deref(maps'["m1"]).num_buckets = Deref(maps["m1"]).num_buckets
            /\ Deref(maps'["m1"]).num_buckets = CreatedWidth(Hint)
       /\ (last'.op = "copy" /\ maps'["out"] # NULL) =>
            Deref(maps'["out"]).num_buckets = CreatedWidth(Hint)
       /\ (last'.op \in {"merge", "merge_overwrite"} /\ maps'["out"] # NULL) =>
            Deref(maps'["out"]).num_buckets
              = CreatedWidth(Hint + stdem_count(maps["m1"]))]_vars

\* a map created for 14 entries holds 14 entries in the 19 buckets it was
\* created with, where a map of the default width would have grown
C32_Witness ==
    /\ last.op = "associate"
    /\ last.ret = STEM_SUCCESS
    /\ Hint = 14
    /\ maps["m1"] # NULL
    /\ Deref(maps["m1"]).count = 14
    /\ Deref(maps["m1"]).num_buckets = 19
    /\ Deref(maps["m2"]).num_buckets = 2 * STEM_DEFAULT_BUCKETS

---------------------------------------------------------------------------
(* ReadOnly maps: two maps, each ReadOnly or not, their copies and merges, *)
(* and streams whose header the caller has flagged ReadOnly                *)

\* where the header holds the count and the flags
CountPos == 1 + SizeofInt + SizeofU16

FlagsPos == CountPos + SizeofSizeT + SizeofSizeT

InitReadOnly ==
    /\ \E vs1 \in ValueSizes, vs2 \in ValueSizes,
          f1 \in {STEM_FLAGS_NONE, STEM_FLAGS_READONLY},
          f2 \in {STEM_FLAGS_NONE, STEM_FLAGS_READONLY} :
         /\ vs1 >= vs2
         /\ maps = [NoMaps EXCEPT !["m1"] = stdem_create_ex(2, vs1, f1).map,
                                  !["m2"] = stdem_create_ex(2, vs2, f2).map]
    /\ stream = <<>>
    /\ caller = NoCaller
    /\ threads = NoThreads
    /\ last = Call("none", "", "", 0, STEM_SUCCESS, FALSE)
    /\ heap = NoHeap

\* the caller sets the ReadOnly bit in the header of the stream just written
FlagStream ==
    /\ last.op = "serialize"
    /\ ~last.crashed
    /\ stream # <<>>
    /\ stream' = [stream EXCEPT ![FlagsPos] = FlagsOr(@, STEM_FLAGS_READONLY)]
    /\ last' = Call("stream_readonly", last.a, "", 0, STEM_SUCCESS, FALSE)
    /\ UNCHANGED <<maps, heap, caller, threads>>

NextReadOnly ==
    \/ \E s \in {"m1", "m2"}, k \in Keys, vn \in MergeArgs :
         /\ Live("m1") + Live("m2") < MaxLive
         /\ Associate(s, k, vn[1], vn[2])
    \/ \E s \in {"m1", "m2"} : Clear(s)
    \/ \E s \in {"m1", "m2"} : Copy(s)
    \/ \E o \in BOOLEAN, ub \in UBOutcomes : Merge("m1", "m2", o, ub)
    \/ \E s \in {"m1", "m2"}, ub \in UBOutcomes : Serialize(s, ub)
    \/ FlagStream
    \/ Deserialize
    \/ Destroy("out")

SpecReadOnly == InitReadOnly /\ [][NextReadOnly]_vars

ReadOnly(mp) == mp # NULL /\ HasFlag(Deref(mp).flags, STEM_FLAGS_READONLY)

\* a map flagged ReadOnly has count 0 and empty chains
C33_Empty ==
    \A s \in Slots :
      ReadOnly(maps[s]) =>
         /\ stdem_count(maps[s]) = 0
         /\ Entries(Deref(maps[s])) = <<>>
         /\ stdem_foreach(maps[s]).visits = <<>>

\* the call returned no map and reported InvalidArgument
Rejected ==
    /\ maps'["out"] = NULL
    /\ last'.ret = STEM_ERROR_INVALID_ARG
    /\ ~last'.crashed

C33_Step ==
    /\ (last'.op = "copy" /\ ReadOnly(maps[last'.a])) => Rejected
    /\ (/\ last'.op \in {"merge", "merge_overwrite"}
        /\ ReadOnly(maps[last'.a]) \/ ReadOnly(maps[last'.b])
        /\ stdem_count(maps[last'.a]) + stdem_count(maps[last'.b]) >= 1)
         => Rejected
    /\ (/\ last'.op = "deserialize"
        /\ CanRead(stream, FlagsPos, SizeofInt)
        /\ HasFlag(UnLE(stream, FlagsPos, SizeofInt), STEM_FLAGS_READONLY)
        /\ UnLE(stream, CountPos, SizeofSizeT) >= 1)
         => Rejected

\* C33 (ReadOnly maps are always empty): in every reachable state a map
\* flagged ReadOnly has count 0; a copy of a ReadOnly map, a merge with a
\* ReadOnly input in which the inputs hold an entry, and a deserialize of a
\* stream whose header has the ReadOnly flag and a count >= 1 return no
\* map and report InvalidArgument.
C33_ReadOnlyEmpty == []C33_Empty /\ [][C33_Step]_vars

\* a merge of an empty ReadOnly map with a map of the same value size that
\* holds two entries was rejected
C33_Witness ==
    /\ last.op = "merge"
    /\ last.ret = STEM_ERROR_INVALID_ARG
    /\ maps["out"] = NULL
    /\ ReadOnly(maps["m1"])
    /\ ~ReadOnly(maps["m2"])
    /\ stdem_value_size(maps["m1"]) = stdem_value_size(maps["m2"])
    /\ stdem_count(maps["m2"]) = 2

---------------------------------------------------------------------------
(* C34 *)

\* the map in slot s exists and holds no entry
Empty(s) == maps[s] # NULL /\ stdem_count(maps[s]) = 0

\* C34 (empty outputs are rejected): a copy of a map with count 0, a merge
\* of two maps that both have count 0, and a deserialize of the stream that
\* serialize wrote for a map with count 0 return no map and report
\* InvalidArgument.
C34_EmptyRejected ==
    [][/\ (last'.op = "copy" /\ Empty(last'.a)) => Rejected
       /\ (/\ last'.op \in {"merge", "merge_overwrite"}
           /\ Empty(last'.a)
           /\ Empty(last'.b))
            => Rejected
       /\ (/\ last'.op = "deserialize"
           /\ last.op = "serialize"
           /\ Empty(last.a)
           /\ \E ub \in UBOutcomes :
                stream = stdem_serialize(maps[last.a], ub).bytes)
            => Rejected]_vars

\* the stream written for an empty map that is not ReadOnly was read and
\* no map came back
C34_Witness ==
    /\ last.op = "deserialize"
    /\ last.b = "m2"
    /\ last.ret = STEM_ERROR_INVALID_ARG
    /\ maps["out"] = NULL
    /\ Empty("m2")
    /\ ~ReadOnly(maps["m2"])
    /\ stdem_count(maps["m1"]) = 2

---------------------------------------------------------------------------
(* C35 *)

\* C35 (merge symmetry): when merge(A, B, true) has returned a map and
\* merge(B, A, false) returns one, the two results hold the same keys and,
\* for every key, the same value and the same name.
C35_MergeSymmetry ==
    MergeReturned("merge_overwrite") =>
       \A ub \in UBOutcomes :
          \E r \in {stdem_merge(maps[last.b], maps[last.a], FALSE, ub)} :
             (r.map # NULL /\ ~r.crashed) => ObservablyEqual(maps["out"], r.map)

---------------------------------------------------------------------------
(* C36 *)

\* the live entries of the copy-mode maps, each with the slot of its map
CopyModeEntries ==
    UNION {{<<s, e>> : e \in {Entries(Deref(maps[s]))[i] :
                                i \in 1..Len(Entries(Deref(maps[s])))}} :
           s \in {t \in Slots : maps[t] # NULL /\ stdem_value_size(maps[t]) > 0}}

\* C36 (copy-mode ownership): in a map with value_size > 0 the value of
\* every live entry is a buffer of value_size bytes allocated by the map,
\* never NULL and never the caller's pointer, and no two entries, of one
\* map or of two, have the same buffer.
C36_CopyModeOwnership ==
    /\ \A x \in CopyModeEntries :
         /\ x[2].value.kind = "heap"
         /\ x[2].value.addr \in heap.live
         /\ Len(x[2].value.bytes) = stdem_value_size(maps[x[1]])
    /\ \A x, y \in CopyModeEntries :
         (x[2].value.kind = "heap" /\ x[2].value.addr = y[2].value.addr)
           => x[2].at = y[2].at

---------------------------------------------------------------------------
(* C37 *)

\* what the two lookups of key k report on map mp, whose live entries,
\* those linked in its chains, are e
LookupsTrack(mp, e, k) ==
    \E held \in {{i \in 1..Len(e) : e[i].enum_value = k}} :
       IF held # {}
       THEN \A i \in held :
              /\ stdem_get_value_ex(mp, k)
                   = [value |-> e[i].value, error |-> STEM_SUCCESS]
              /\ stdem_get_name_ex(mp, k)
                   = [name |-> e[i].name, error |-> STEM_SUCCESS]
       ELSE /\ stdem_get_value_ex(mp, k)
                 = [value |-> NullPtr, error |-> STEM_ERROR_NOT_FOUND]
            /\ stdem_get_name_ex(mp, k)
                 = [name |-> NULL, error |-> STEM_ERROR_NOT_FOUND]

\* C37 (lookup error codes track key presence): on a map without NoNames,
\* get_value and get_name report NotFound for a key exactly when no live
\* entry has it; for a live key they report Success and return what the
\* entry holds, also when that is no name or a NULL value.
C37_LookupErrors ==
    \A s \in Slots :
      (maps[s] # NULL /\ ~HasFlag(Deref(maps[s]).flags, STEM_FLAGS_NO_NAMES)) =>
         \E e \in {Entries(Deref(maps[s]))} :
            \A k \in LookupKeys : LookupsTrack(maps[s], e, k)

\* a reference-mode map without NoNames holds a key with a NULL value and
\* no name, and both lookups of it report Success
C37_Witness ==
    /\ last.op = "associate"
    /\ last.ret = STEM_SUCCESS
    /\ maps["m1"] # NULL
    /\ Deref(maps["m1"]).flags = STEM_FLAGS_NONE
    /\ Deref(maps["m1"]).value_size = 0
    /\ stdem_get_value_ex(maps["m1"], last.key)
         = [value |-> NullPtr, error |-> STEM_SUCCESS]
    /\ stdem_get_name_ex(maps["m1"], last.key)
         = [name |-> NULL, error |-> STEM_SUCCESS]
    /\ \E k \in Keys : stdem_get_name_ex(maps["m1"], k).error = STEM_ERROR_NOT_FOUND

---------------------------------------------------------------------------
(* The calls that take a const map: lookups, iteration, serialize, copy    *)
(* and merge on two maps built by the caller, with the allocator           *)

\* what the caller associated in m2: the same for both keys
ReadContents == {c \in Contents : c[1] = c[-15]}

InitRead ==
    /\ \E vs \in ValueSizes, f \in MergeMemFlags,
          c1 \in Contents, c2 \in ReadContents :
         LET a == BuiltMap(Enter(NoHeap, 0), vs, f, c1)
             b == BuiltMap(a.h, vs, STEM_FLAGS_NONE, c2)
         IN  /\ maps = [NoMaps EXCEPT !["m1"] = a.map, !["m2"] = b.map]
             /\ heap = Leave(b.h)
    /\ stream = <<>>
    /\ caller = NoCaller
    /\ threads = NoThreads
    /\ last = Call("none", "", "", 0, STEM_SUCCESS, FALSE)

\* a call that returns a result and writes nothing: the caller's first call
Returns(op, s, key, ret) ==
    /\ Idle
    /\ last.op = "none"
    /\ last' = Call(op, s, "", key, ret, FALSE)
    /\ UNCHANGED <<maps, stream, heap, caller, threads>>

GetValueRead(s, enum_value) ==
    \E r \in {stdem_get_value_ex(maps[s], enum_value)} :
       Returns("get_value", s, enum_value, r.error)

GetNameRead(s, enum_value) ==
    \E r \in {stdem_get_name_ex(maps[s], enum_value)} :
       Returns("get_name", s, enum_value, r.error)

FindByNameRead(s, name) ==
    \E r \in {stdem_find_by_name(maps[s], name)} :
       Returns("find_by_name", s, r.value, r.error)

ForEachRead(s) ==
    \E r \in {stdem_foreach(maps[s])} :
       Returns("foreach", s, Len(r.visits), r.ret)

CountRead(s) ==
    \E r \in {stdem_count(maps[s])} : Returns("count", s, r, STEM_SUCCESS)

ValueSizeRead(s) ==
    \E r \in {stdem_value_size(maps[s])} :
       Returns("value_size", s, r, STEM_SUCCESS)

\* stdem_serialize(s, file): the bytes go to the file
SerializeRead(s, ub) ==
    /\ Idle
    /\ last.op = "none"
    /\ \E r \in {stdem_serialize(maps[s], ub)} :
         last' = Call("serialize", s, "", Len(r.bytes), r.ret, r.crashed)
    /\ UNCHANGED <<maps, stream, heap, caller, threads>>

NextRead ==
    \/ \E s \in {"m1", "m2"}, k \in Keys : GetValueRead(s, k)
    \/ \E s \in {"m1", "m2"}, k \in Keys : GetNameRead(s, k)
    \/ \E s \in {"m1", "m2"}, n \in NameArgs : FindByNameRead(s, n)
    \/ \E s \in {"m1", "m2"} : ForEachRead(s)
    \/ \E s \in {"m1", "m2"} : CountRead(s)
    \/ \E s \in {"m1", "m2"} : ValueSizeRead(s)
    \/ \E s \in {"m1", "m2"}, ub \in UBOutcomes : SerializeRead(s, ub)
    \/ \E s \in {"m1", "m2"}, fail \in Fails : CopyMem(s, fail)
    \/ \E o \in BOOLEAN, ub \in UBOutcomes, fail \in Fails :
         MergeMem("m1", "m2", o, ub, fail)
    \/ DestroyMem("out")

SpecRead == InitRead /\ [][NextRead]_vars

ReadOps ==
    {"get_value", "get_name", "find_by_name", "foreach", "count",
     "value_size", "serialize", "copy", "merge", "merge_overwrite"}

\* the map in slot s is after the step what it was before: its count,
\* num_buckets and flags, every chain with its entries in their order, each
\* entry with its key, value and name; and nothing it allocated was freed
Intact(s) ==
    /\ maps'[s] = maps[s]
    /\ AddrsOf(maps[s]) \subseteq heap'.live
    /\ stdem_foreach(maps'[s]) = stdem_foreach(maps[s])

\* C38 (read operations have no effect on their inputs): get_value,
\* get_name, find_by_name, for_each, count, value_size, serialize, copy and
\* merge, whether they succeed or fail, leave count, num_buckets, flags and
\* the contents and order of every chain of each map they are given
\* unchanged, and free nothing the map owns.
C38_ReadsFrame ==
    [][last'.op \in ReadOps =>
         /\ \A s \in {last'.a, last'.b} \cap {"m1", "m2"} : Intact(s)
         /\ ~heap'.bad]_vars

\* a copy of a map of two entries ran out of memory after its first
\* allocation and returned no map; the source is whole
C38_Witness ==
    /\ last.op = "copy"
    /\ last.ret = STEM_ERROR_OUT_OF_MEMORY
    /\ heap.site \notin {"", "map"}
    /\ maps["out"] = NULL
    /\ stdem_count(maps[last.a]) = 2
    /\ stdem_value_size(maps[last.a]) > 0
    /\ AddrsOf(maps[last.a]) \subseteq heap.live

====
